---- MODULE Spec2Model ----
(***************************************************************************)
(* A model of generate_argument_specs: the ArgumentSpecsGenerator object,  *)
(* the role directories it reads and the argument_specs.yml files it       *)
(* writes.  Python None and a missing mapping key are both written as the  *)
(* falsy value of the field ("" for text, <<>> for lists) wherever the     *)
(* code only tests truthiness; where the code tests key presence           *)
(* ("description" in existing_specs) the mapping carries a `keys` set.     *)
(***************************************************************************)
EXTENDS Integers, Sequences, FiniteSets, TLC

VARIABLES
    galaxy_version,   \* version declared by the collection's galaxy.yml, "" if none
    roles,            \* role directories on disk: role name -> role content
    collection_mode,  \* ArgumentSpecsGenerator.collection_mode
    dry_run,          \* ArgumentSpecsGenerator.dry_run
    entry_points,     \* ArgumentSpecsGenerator.entry_points (insertion-ordered)
    processed_roles,  \* ArgumentSpecsGenerator.processed_roles
    variable_context, \* ArgumentSpecsGenerator.variable_context (names with a usage hint)
    current_role,     \* ArgumentSpecsGenerator.current_role
    stats,            \* ArgumentSpecsGenerator.stats
    config,           \* the configuration file given to from_config_file
    last,             \* the call that ran last: its arguments, locals and outcome
    edits_left,       \* number of file edits the run may still make
    calls_left,       \* number of generator calls the run may still make
    sample,           \* the arguments a directly called method is given
    pc                \* where a call followed statement by statement stands

vars == <<galaxy_version, roles, collection_mode, dry_run, entry_points,
          processed_roles, variable_context, current_role, stats, config, last,
          edits_left, calls_left, sample, pc>>

(***************************************************************************)
(* Bounds of the model.                                                    *)
(***************************************************************************)
MaxEdits == 3
MaxCalls == 2
MaxGraphEdits == 5
MaxGraphCalls == 1

\* No method is called directly.
NoSample == [method |-> ""]

\* No call is followed statement by statement.
Idle == [at |-> "idle"]

(***************************************************************************)
(* The universe of names and values the files are written from.            *)
(***************************************************************************)
RoleNames == {"db", "web"}

\* `sorted(roles)` and `sorted(standalone_files)`: the strings in Python's order.
SortedRoleNames == <<"db", "web">>
Stems == {"main", "helpers", "backup"}
SortedStems == <<"backup", "helpers", "main">>

\* Variable names a task file can reference.
TaskNames == {"port", "db_host"}

\* The YAML 1.1 key `yes`, which yaml.safe_load returns as the bool True: a
\* mapping key that is not a str.
NonStrKey == "yes"
DefaultKeys == TaskNames \cup {NonStrKey}

IntVal == [kind |-> "int", repr |-> "8080"]
StrVal == [kind |-> "str", repr |-> "myapp"]
NoneVal == [kind |-> "NoneType", repr |-> "None"]
DefaultValues == {IntVal, StrVal}

Versions == {"1.2.0", "2.0.0"}
HandVersion == "0.1.0"
HandText == "Custom text"

EmptyMap == [x \in {} |-> x]

\* Iteration over a Python set visits its members in an order the program
\* does not control: `ord` is the order of one run.
Orders ==
    { <<a, b, c>> : a \in Stems, b \in Stems, c \in Stems }

StemOrders == { o \in Orders : {o[1], o[2], o[3]} = Stems }

IterationOrder(S, ord) == SelectSeq(ord, LAMBDA x : x \in S)

RECURSIVE JoinStems(_)
JoinStems(seq) ==
    IF seq = <<>> THEN ""
    ELSE IF Len(seq) = 1 THEN seq[1]
    ELSE seq[1] \o ", " \o JoinStems(Tail(seq))

RECURSIVE SumSeq(_)
SumSeq(seq) == IF seq = <<>> THEN 0 ELSE Head(seq) + SumSeq(Tail(seq))

(***************************************************************************)
(* Files of a role.                                                        *)
(***************************************************************************)
NoMeta == [version |-> "", authors |-> <<>>, description |-> <<>>,
           short_description |-> ""]

NoSpecFile == [exists |-> FALSE, eps |-> <<>>, fault |-> "none"]

\* `faults` names the files among galaxy.yml, defaults, vars and meta that
\* cannot be loaded, with the kind of the failure: "unreadable" (open or
\* decode raises) or "invalid_yaml" (the text is read, the YAML parser raises).
\* A task file and the spec file carry theirs in their own `fault` field.
EmptyRole == [defaults |-> EmptyMap, vars |-> EmptyMap, tasks |-> EmptyMap,
              meta |-> NoMeta, spec |-> NoSpecFile, faults |-> EmptyMap]

EmptyTaskFile == [vars |-> {}, ctx |-> {}, includes |-> {}, nested |-> {},
                  fault |-> "none"]

broken(role, file) == file \in DOMAIN role.faults

(***************************************************************************)
(* Role structure analysis.                                                *)
(***************************************************************************)

\* Python values read from YAML: `kind` is type(value).__name__, `repr` is
\* str(value); a mapping carries its items.
yaml_str(text) == [kind |-> "str", repr |-> text]
yaml_float(text) == [kind |-> "float", repr |-> text]
yaml_int(text) == [kind |-> "int", repr |-> text]
yaml_dict(items) == [kind |-> "dict", repr |-> "{...}", items |-> items]

\* bool(value)
truthy(value) ==
    CASE value.kind = "NoneType" -> FALSE
      [] value.kind = "str" -> value.repr # ""
      [] value.kind = "int" -> value.repr # "0"
      [] value.kind = "float" -> value.repr # "0.0"
      [] value.kind = "bool" -> value.repr = "True"
      [] value.kind = "dict" -> DOMAIN value.items # {}
      [] OTHER -> TRUE

\* str(value)
py_str(value) == value.repr

\* A YAML file on disk: absent; unreadable (open, decode or parse raises);
\* blank (only white space); or a document, the value safe_load returns.
AbsentFile == [state |-> "absent"]
UnreadableFile == [state |-> "unreadable"]
BlankFile == [state |-> "blank"]
Document(value) == [state |-> "document", value |-> value]

\* _get_nested_value: follow the keys while the current value is a mapping
\* that has the key, else None.
RECURSIVE get_nested_value(_, _)
get_nested_value(data, keys) ==
    IF keys = <<>> THEN data
    ELSE IF data.kind = "dict" /\ Head(keys) \in DOMAIN data.items
         THEN get_nested_value(data.items[Head(keys)], Tail(keys))
         ELSE NoneVal

version_fields == << <<"version">>, <<"galaxy_info", "version">>, <<"galaxy_info", "role_version">> >>

DefaultVersionInfo == [version |-> "1.0.0", is_collection |-> FALSE, source |-> "default"]

\* The walk `for _ in range(3)`: the index of the first ancestor directory
\* that holds a galaxy.yml, 0 when none of the three does.
collection_root(ancestors) ==
    IF \E i \in 1..3 : ancestors[i].state # "absent"
    THEN CHOOSE i \in 1..3 : /\ ancestors[i].state # "absent"
                             /\ \A j \in 1..(i - 1) : ancestors[j].state = "absent"
    ELSE 0

\* The second half of _detect_version_info: the role's meta/main.yml.
version_from_meta(meta_file) ==
    IF /\ meta_file.state = "document"
       /\ meta_file.value.kind = "dict"
       /\ \E i \in 1..3 : truthy(get_nested_value(meta_file.value, version_fields[i]))
    THEN [version |-> py_str(get_nested_value(meta_file.value,
                         version_fields[CHOOSE i \in 1..3 :
                            /\ truthy(get_nested_value(meta_file.value, version_fields[i]))
                            /\ \A j \in 1..(i - 1) :
                                  ~truthy(get_nested_value(meta_file.value, version_fields[j]))])),
          is_collection |-> FALSE, source |-> "role"]
    ELSE DefaultVersionInfo

version_from_manifest(manifest, meta_file) ==
    IF /\ manifest.state = "document"
       /\ manifest.value.kind = "dict"
       /\ "version" \in DOMAIN manifest.value.items
    THEN [version |-> py_str(manifest.value.items["version"]),
          is_collection |-> TRUE, source |-> "collection"]
    ELSE version_from_meta(meta_file)

\* A detection that asks the role's metadata first.
detect_version_role_first(ancestors, meta_file) ==
    IF version_from_meta(meta_file).source = "role" THEN version_from_meta(meta_file)
    ELSE IF collection_root(ancestors) = 0 THEN DefaultVersionInfo
    ELSE version_from_manifest(ancestors[collection_root(ancestors)], AbsentFile)

\* _detect_version_info on the three ancestor directories of the role and
\* the role's meta/main.yml.
detect_version_info_files(ancestors, meta_file) ==
    IF collection_root(ancestors) = 0 THEN version_from_meta(meta_file)
    ELSE version_from_manifest(ancestors[collection_root(ancestors)], meta_file)

\* The roles of the model live in <collection>/roles/<name>: the manifest is
\* in the second ancestor directory, and `galaxy` is the version it declares
\* ("" when there is no manifest); the role's metadata gives its version, if
\* any, as galaxy_info.version.
galaxy_ancestors(galaxy, role) ==
    << AbsentFile,
       IF galaxy = "" THEN AbsentFile
       ELSE IF broken(role, "galaxy.yml") THEN UnreadableFile
       ELSE Document(yaml_dict([k \in {"version"} |-> yaml_str(galaxy)])),
       AbsentFile >>

meta_main_yml(role) ==
    IF role.meta = NoMeta THEN AbsentFile
    ELSE IF broken(role, "meta") THEN UnreadableFile
    ELSE Document(yaml_dict([k \in {"galaxy_info"} |->
             IF role.meta.version = "" THEN yaml_dict(EmptyMap)
             ELSE yaml_dict([f \in {"version"} |-> yaml_str(role.meta.version)])]))

detect_version_info(galaxy, role) ==
    detect_version_info_files(galaxy_ancestors(galaxy, role), meta_main_yml(role))

\* A task file's include set.  `includes` are the targets of the include
\* directives of its top-level tasks, `nested` those found only inside
\* block/rescue/always sections.  The structured parse looks at top-level
\* tasks only and keeps a self-reference; the regex scan runs when the
\* structured parse found nothing, sees every directive in the text and drops
\* a self-reference.
\* A file that cannot be read has no includes; one that is read but is not
\* valid YAML goes to the regex scan (yaml_success stays False).
parse_task_file_includes(stem, task_file) ==
    IF task_file.fault = "unreadable" THEN {}
    ELSE IF task_file.fault = "none" /\ task_file.includes # {} THEN task_file.includes
    ELSE (task_file.includes \cup task_file.nested) \ {stem}

\* An extraction that reads every file, loadable or not.
extract_variables_ignoring_faults(task_file) == task_file.vars

\* The variable names the patterns find in the text of a task file; none
\* when the file cannot be read.  The patterns do not parse the YAML.
extract_variables_from_task_file(task_file) ==
    IF task_file.fault = "unreadable" THEN {} ELSE task_file.vars

\* _analyze_task_files: the include map, the variables of each file and the
\* union of all include sets.
file_includes_map(role) ==
    [f \in DOMAIN role.tasks |-> parse_task_file_includes(f, role.tasks[f])]

file_variables(role) ==
    [f \in DOMAIN role.tasks |-> extract_variables_from_task_file(role.tasks[f])]

all_included_files(role) ==
    UNION { file_includes_map(role)[f] : f \in DOMAIN role.tasks }

\* _determine_entry_points: "main" is there from the start; every task file
\* that is not main and that nobody includes is added, in sorted order.
standalone_files(role) ==
    { f \in DOMAIN role.tasks : f # "main" /\ f \notin all_included_files(role) }

\* Every task file but main taken for an entry point, included or not.
determine_entry_points_unfiltered(role) ==
    <<"main">> \o SelectSeq(SortedStems, LAMBDA f : f \in DOMAIN role.tasks /\ f # "main")

determine_entry_points(role) ==
    <<"main">> \o SelectSeq(SortedStems, LAMBDA f : f \in standalone_files(role))

\* Names for which the task files record a usage hint.
analyze_variable_usage_context(role) ==
    UNION { role.tasks[f].ctx : f \in { g \in DOMAIN role.tasks :
                                          role.tasks[g].fault = "none" } }

analyze_role_structure(galaxy, role) ==
    [version |-> detect_version_info(galaxy, role).version,
     is_collection |-> detect_version_info(galaxy, role).is_collection,
     defaults |-> IF broken(role, "defaults") THEN EmptyMap ELSE role.defaults,
     vars |-> IF broken(role, "vars") THEN EmptyMap ELSE role.vars,
     authors |-> IF broken(role, "meta") THEN <<>> ELSE role.meta.authors,
     meta_description |-> IF broken(role, "meta") THEN <<>> ELSE role.meta.description,
     meta_short_description |->
        IF broken(role, "meta") THEN "" ELSE role.meta.short_description,
     all_task_files |-> DOMAIN role.tasks,
     included_files |-> all_included_files(role),
     file_includes_map |-> file_includes_map(role),
     file_variables |-> file_variables(role),
     entry_points |-> determine_entry_points(role)]

(***************************************************************************)
(* Type and description inference.                                         *)
(***************************************************************************)
\* The characters of the strings of the model, so that the substring and
\* prefix tests of the code are made on the text itself.
chars(text) ==
    CASE text = "port" -> <<"p", "o", "r", "t">>
      [] text = "db_host" -> <<"d", "b", "_", "h", "o", "s", "t">>
      [] text = "yes" -> <<"y", "e", "s">>
      [] text = "config_path" -> <<"c", "o", "n", "f", "i", "g", "_", "p", "a", "t", "h">>
      [] text = "app_name" -> <<"a", "p", "p", "_", "n", "a", "m", "e">>
      [] text = "LOG_DIR" -> <<"L", "O", "G", "_", "D", "I", "R">>
      [] text = "profile" -> <<"p", "r", "o", "f", "i", "l", "e">>
      [] text = "myapp" -> <<"m", "y", "a", "p", "p">>
      [] text = "/etc/app/x" -> <<"/", "e", "t", "c", "/", "a", "p", "p", "/", "x">>
      [] text = "C:\\logs" -> <<"C", ":", "\\", "l", "o", "g", "s">>
      [] text = "variable" -> <<"v", "a", "r", "i", "a", "b", "l", "e">>
      [] text = "relative/x" -> <<"r", "e", "l", "a", "t", "i", "v", "e", "/", "x">>
      [] text = "a" -> <<"a">>
      [] text = "path" -> <<"p", "a", "t", "h">>
      [] text = "dir" -> <<"d", "i", "r">>
      [] text = "directory" -> <<"d", "i", "r", "e", "c", "t", "o", "r", "y">>
      [] text = "file" -> <<"f", "i", "l", "e">>
      [] text = "location" -> <<"l", "o", "c", "a", "t", "i", "o", "n">>
      [] text = "home" -> <<"h", "o", "m", "e">>
      [] text = "tmp" -> <<"t", "m", "p">>
      [] text = "var" -> <<"v", "a", "r">>
      [] text = "etc" -> <<"e", "t", "c">>
      [] text = "usr" -> <<"u", "s", "r">>
      [] text = "/" -> <<"/">>
      [] text = "\\" -> <<"\\">>
      [] text = "ansible_" -> <<"a", "n", "s", "i", "b", "l", "e", "_">>
      [] text = "hostvars" -> <<"h", "o", "s", "t", "v", "a", "r", "s">>
      [] text = "group_names" -> <<"g", "r", "o", "u", "p", "_", "n", "a", "m", "e", "s">>
      [] text = "groups" -> <<"g", "r", "o", "u", "p", "s">>
      [] text = "inventory_hostname" -> <<"i", "n", "v", "e", "n", "t", "o", "r", "y", "_", "h", "o", "s", "t", "n", "a", "m", "e">>
      [] text = "inventory_hostname_short" -> <<"i", "n", "v", "e", "n", "t", "o", "r", "y", "_", "h", "o", "s", "t", "n", "a", "m", "e", "_", "s", "h", "o", "r", "t">>
      [] text = "play_hosts" -> <<"p", "l", "a", "y", "_", "h", "o", "s", "t", "s">>
      [] text = "omit" -> <<"o", "m", "i", "t">>
      [] text = "item" -> <<"i", "t", "e", "m">>
      [] text = "loop" -> <<"l", "o", "o", "p">>
      [] text = "and" -> <<"a", "n", "d">>
      [] text = "default" -> <<"d", "e", "f", "a", "u", "l", "t">>
      [] text = "defined" -> <<"d", "e", "f", "i", "n", "e", "d">>
      [] text = "development" -> <<"d", "e", "v", "e", "l", "o", "p", "m", "e", "n", "t">>
      [] text = "false" -> <<"f", "a", "l", "s", "e">>
      [] text = "in" -> <<"i", "n">>
      [] text = "inventory_dir" -> <<"i", "n", "v", "e", "n", "t", "o", "r", "y", "_", "d", "i", "r">>
      [] text = "is" -> <<"i", "s">>
      [] text = "loop_var" -> <<"l", "o", "o", "p", "_", "v", "a", "r">>
      [] text = "no" -> <<"n", "o">>
      [] text = "none" -> <<"n", "o", "n", "e">>
      [] text = "not" -> <<"n", "o", "t">>
      [] text = "null" -> <<"n", "u", "l", "l">>
      [] text = "off" -> <<"o", "f", "f">>
      [] text = "on" -> <<"o", "n">>
      [] text = "or" -> <<"o", "r">>
      [] text = "outer_item" -> <<"o", "u", "t", "e", "r", "_", "i", "t", "e", "m">>
      [] text = "playbook_dir" -> <<"p", "l", "a", "y", "b", "o", "o", "k", "_", "d", "i", "r">>
      [] text = "production" -> <<"p", "r", "o", "d", "u", "c", "t", "i", "o", "n">>
      [] text = "role_path" -> <<"r", "o", "l", "e", "_", "p", "a", "t", "h">>
      [] text = "staging" -> <<"s", "t", "a", "g", "i", "n", "g">>
      [] text = "true" -> <<"t", "r", "u", "e">>
      [] text = "undef" -> <<"u", "n", "d", "e", "f">>
      [] text = "undefined" -> <<"u", "n", "d", "e", "f", "i", "n", "e", "d">>
      [] text = "vars" -> <<"v", "a", "r", "s">>
      [] text = "version" -> <<"v", "e", "r", "s", "i", "o", "n">>
      [] text = "items" -> <<"i", "t", "e", "m", "s">>
      [] text = "ansible_host" -> <<"a", "n", "s", "i", "b", "l", "e", "_", "h", "o", "s", "t">>
      [] text = "omitted" -> <<"o", "m", "i", "t", "t", "e", "d">>
      [] text = "loop_count" -> <<"l", "o", "o", "p", "_", "c", "o", "u", "n", "t">>
      [] text = "Yes" -> <<"Y", "e", "s">>
      [] text = "TRUE" -> <<"T", "R", "U", "E">>
      [] text = "my_var" -> <<"m", "y", "_", "v", "a", "r">>
      [] text = "groups_list" -> <<"g", "r", "o", "u", "p", "s", "_", "l", "i", "s", "t">>
      [] text = "Version" -> <<"V", "e", "r", "s", "i", "o", "n">>
      [] text = "x1" -> <<"x", "1">>
      [] text = "host_vars" -> <<"h", "o", "s", "t", "_", "v", "a", "r", "s">>
      [] text = "p" -> <<"p">>
      [] text = "Port" -> <<"P", "o", "r", "t">>
      [] text = "type" -> <<"t", "y", "p", "e">>
      [] text = "required" -> <<"r", "e", "q", "u", "i", "r", "e", "d">>
      [] text = "choices" -> <<"c", "h", "o", "i", "c", "e", "s">>
      [] text = "elements" -> <<"e", "l", "e", "m", "e", "n", "t", "s">>
      [] text = "options" -> <<"o", "p", "t", "i", "o", "n", "s">>
      [] text = "version_added" -> <<"v", "e", "r", "s", "i", "o", "n", "_", "a", "d", "d", "e", "d">>
      [] text = "description" -> <<"d", "e", "s", "c", "r", "i", "p", "t", "i", "o", "n">>
      [] text = "short_description" -> <<"s", "h", "o", "r", "t", "_", "d", "e", "s", "c", "r", "i", "p", "t", "i", "o", "n">>
      [] text = "author" -> <<"a", "u", "t", "h", "o", "r">>
      [] text = "required_if" -> <<"r", "e", "q", "u", "i", "r", "e", "d", "_", "i", "f">>
      [] text = "required_one_of" -> <<"r", "e", "q", "u", "i", "r", "e", "d", "_", "o", "n", "e", "_", "o", "f">>
      [] text = "mutually_exclusive" -> <<"m", "u", "t", "u", "a", "l", "l", "y", "_", "e", "x", "c", "l", "u", "s", "i", "v", "e">>
      [] text = "required_together" -> <<"r", "e", "q", "u", "i", "r", "e", "d", "_", "t", "o", "g", "e", "t", "h", "e", "r">>
      [] text = "main" -> <<"m", "a", "i", "n">>
      [] text = "install" -> <<"i", "n", "s", "t", "a", "l", "l">>
      [] text = "b" -> <<"b">>
      [] text = "" -> <<>>

\* str.lower(), on the letters the names of the model are written with.
lower_char(c) ==
    CASE c = "A" -> "a"
      [] c = "B" -> "b"
      [] c = "C" -> "c"
      [] c = "D" -> "d"
      [] c = "E" -> "e"
      [] c = "F" -> "f"
      [] c = "G" -> "g"
      [] c = "H" -> "h"
      [] c = "I" -> "i"
      [] c = "J" -> "j"
      [] c = "K" -> "k"
      [] c = "L" -> "l"
      [] c = "M" -> "m"
      [] c = "N" -> "n"
      [] c = "O" -> "o"
      [] c = "P" -> "p"
      [] c = "Q" -> "q"
      [] c = "R" -> "r"
      [] c = "S" -> "s"
      [] c = "T" -> "t"
      [] c = "U" -> "u"
      [] c = "V" -> "v"
      [] c = "W" -> "w"
      [] c = "X" -> "x"
      [] c = "Y" -> "y"
      [] c = "Z" -> "z"
      [] OTHER -> c

lower(text_chars) == [i \in 1..Len(text_chars) |-> lower_char(text_chars[i])]

\* `needle in haystack` for two str
contains(haystack, needle) ==
    \E i \in 1..(Len(haystack) - Len(needle) + 1) :
        SubSeq(haystack, i, i + Len(needle) - 1) = needle

\* haystack.startswith(prefix)
startswith(haystack, prefix) ==
    Len(prefix) <= Len(haystack) /\ SubSeq(haystack, 1, Len(prefix)) = prefix

path_keywords == {"path", "dir", "directory", "file", "location"}
path_parts == {"home", "tmp", "var", "etc", "usr"}

\* _infer_string_type: every branch after the path test returns "str".
infer_string_type(name, value) ==
    IF /\ \E keyword \in path_keywords : contains(lower(chars(name)), chars(keyword))
       /\ \/ startswith(chars(value.repr), chars("/"))
          \/ contains(chars(value.repr), chars("\\"))
          \/ \E path_part \in path_parts : contains(chars(value.repr), chars(path_part))
    THEN "path"
    ELSE "str"

\* isinstance(value, int): bool is a subclass of int.
isinstance_int(value) == value.kind \in {"int", "bool"}

\* The chain of isinstance tests in the loop of _infer_list_element_type.
element_type(elem) ==
    IF elem.kind = "dict" THEN "dict"
    ELSE IF isinstance_int(elem) THEN "int"
    ELSE IF elem.kind = "bool" THEN "bool"
    ELSE IF elem.kind = "float" THEN "float"
    ELSE "str"

\* type_counts[elem_type]
type_count(elems, elem_type) ==
    Cardinality({ i \in 1..Len(elems) : element_type(elems[i]) = elem_type })

\* The position at which elem_type entered type_counts.
first_seen(elems, elem_type) ==
    CHOOSE i \in 1..Len(elems) :
        /\ element_type(elems[i]) = elem_type
        /\ \A j \in 1..(i - 1) : element_type(elems[j]) # elem_type

\* _infer_list_element_type: max() over the items of type_counts returns the
\* first item, in insertion order, that has the largest count.
infer_list_element_type(elems) ==
    IF elems = <<>> THEN "str"
    ELSE CHOOSE t \in { element_type(elems[i]) : i \in 1..Len(elems) } :
            \A u \in { element_type(elems[i]) : i \in 1..Len(elems) } :
                \/ type_count(elems, u) < type_count(elems, t)
                \/ /\ type_count(elems, u) = type_count(elems, t)
                   /\ first_seen(elems, t) <= first_seen(elems, u)

\* The chain of isinstance tests at the top of _infer_argument_spec.
infer_type(name, value) ==
    IF value.kind = "bool" THEN "bool"
    ELSE IF isinstance_int(value) THEN "int"
    ELSE IF value.kind = "float" THEN "float"
    ELSE IF value.kind = "list" THEN "list"
    ELSE IF value.kind = "dict" THEN "dict"
    ELSE IF value.kind = "str" THEN infer_string_type(name, value)
    ELSE "str"

\* `elements`, set for a list only ("" stands for None).
infer_elements(value) ==
    IF value.kind = "list"
    THEN infer_list_element_type(value.elems)
    ELSE ""

format_description_by_type(base_desc, value, arg_type) ==
    CASE value.kind = "bool" ->
            IF value.repr = "True" THEN base_desc \o " (enabled by default)"
            ELSE base_desc \o " (disabled by default)"
      [] value.kind \in {"int", "float"} ->
            IF arg_type \in {"int", "float"}
            THEN base_desc \o " (default: " \o value.repr \o ")"
            ELSE base_desc
      [] value.kind = "list" ->
            IF Len(value.elems) = 0 THEN base_desc \o " (list, empty by default)"
            ELSE IF Len(value.elems) = 1 THEN base_desc \o " (list with default item)"
            ELSE base_desc \o " (list with " \o ToString(Len(value.elems))
                           \o " default items)"
      [] value.kind = "dict" ->
            IF DOMAIN value.items = {} THEN base_desc \o " (dictionary, empty by default)"
            ELSE base_desc \o " (dictionary with default configuration)"
      [] value.kind = "str" ->
            IF value.repr = "" THEN base_desc \o " (empty by default)"
            ELSE IF Len(value.repr) > 50 THEN base_desc \o " (configured with default value)"
            ELSE base_desc \o " (default: '" \o value.repr \o "')"
      [] OTHER -> base_desc

\* The entries of description_patterns that the names of the model reach:
\* "port" matches exactly, "db_host" contains "host" and no earlier pattern.
description_patterns(name) ==
    CASE name = "port" -> "Port number for network connection"
      [] name = "db_host" -> "Hostname or IP address"
      [] OTHER -> "Configuration value for " \o name

\* A name with a recorded usage hint is described by it (the model records
\* the hint of the `name` parameter of the service module).
generate_smart_description(name, value, arg_type, context) ==
    IF name \in context
    THEN format_description_by_type("service name (used in service)", value, arg_type)
    ELSE format_description_by_type(description_patterns(name), value, arg_type)

\* name.lower() raises AttributeError on a key that is not a str: in
\* _infer_string_type for a string value, in _generate_smart_description when
\* no existing description is reused.
infer_raises(name, value, existing_description) ==
    name = NonStrKey /\ (value.kind = "str" \/ existing_description = "")

\* An inference that stamps the current version on every option, recorded
\* version or not.
infer_argument_spec_restamped(name, value, existing_description, existing_version_added, is_existing, current_version, context) ==
    [name |-> name,
     type |-> infer_type(name, value),
     required |-> FALSE,
     default |-> value,
     choices |-> <<>>, elements |-> infer_elements(value), options |-> EmptyMap,
     description |->
        IF existing_description # "" THEN existing_description
        ELSE generate_smart_description(name, value, infer_type(name, value), context),
     version_added |-> current_version]

\* An inference that marks every option it builds as required.
infer_argument_spec_required(name, value, existing_description, existing_version_added, is_existing, current_version, context) ==
    [name |-> name,
     type |-> infer_type(name, value),
     required |-> TRUE,
     default |-> value,
     choices |-> <<>>, elements |-> infer_elements(value), options |-> EmptyMap,
     description |->
        IF existing_description # "" THEN existing_description
        ELSE generate_smart_description(name, value, infer_type(name, value), context),
     version_added |->
        IF existing_version_added # "" THEN existing_version_added
        ELSE IF is_existing THEN ""
        ELSE current_version]

infer_argument_spec(name, value, existing_description, existing_version_added, is_existing, current_version, context) ==
    [name |-> name,
     type |-> infer_type(name, value),
     required |-> FALSE,
     default |-> value,
     choices |-> <<>>, elements |-> infer_elements(value), options |-> EmptyMap,
     description |->
        IF existing_description # "" THEN existing_description
        ELSE generate_smart_description(name, value, infer_type(name, value), context),
     version_added |->
        IF existing_version_added # "" THEN existing_version_added
        ELSE IF is_existing THEN ""
        ELSE current_version]

(***************************************************************************)
(* The spec merge engine.                                                  *)
(***************************************************************************)
NoExistingOpt == [description |-> "", version_added |-> "", _existing |-> FALSE]

NoExistingEntry == [keys |-> {}, short_description |-> "", description |-> <<>>,
                    author |-> <<>>, options |-> EmptyMap]

\* existing_options.get(var_name, {})
get_existing_opt(existing_options, var_name) ==
    IF var_name \in DOMAIN existing_options THEN existing_options[var_name]
    ELSE NoExistingOpt

\* A task variable that is never stamped when it is new.
task_argument_spec_unstamped(var_name, generated_description, analysis, existing_options) ==
    [name |-> var_name,
     type |-> "str",
     required |-> ~(var_name \in DOMAIN analysis.defaults \/ var_name \in DOMAIN analysis.vars),
     default |-> NoneVal,
     choices |-> <<>>, elements |-> "", options |-> EmptyMap,
     description |->
        IF get_existing_opt(existing_options, var_name).description # ""
        THEN get_existing_opt(existing_options, var_name).description
        ELSE generated_description,
     version_added |-> get_existing_opt(existing_options, var_name).version_added]

\* A task variable that is stamped whenever no version is recorded for it,
\* listed before or not.
task_argument_spec_always_stamped(var_name, generated_description, analysis, existing_options) ==
    [name |-> var_name,
     type |-> "str",
     required |-> ~(var_name \in DOMAIN analysis.defaults \/ var_name \in DOMAIN analysis.vars),
     default |-> NoneVal,
     choices |-> <<>>, elements |-> "", options |-> EmptyMap,
     description |->
        IF get_existing_opt(existing_options, var_name).description # ""
        THEN get_existing_opt(existing_options, var_name).description
        ELSE generated_description,
     version_added |->
        IF get_existing_opt(existing_options, var_name).version_added # ""
        THEN get_existing_opt(existing_options, var_name).version_added
        ELSE analysis.version]

\* A task variable that is never required.
task_argument_spec_optional(var_name, generated_description, analysis, existing_options) ==
    [name |-> var_name,
     type |-> "str",
     required |-> FALSE,
     default |-> NoneVal,
     choices |-> <<>>, elements |-> "", options |-> EmptyMap,
     description |->
        IF get_existing_opt(existing_options, var_name).description # ""
        THEN get_existing_opt(existing_options, var_name).description
        ELSE generated_description,
     version_added |->
        IF get_existing_opt(existing_options, var_name).version_added # ""
        THEN get_existing_opt(existing_options, var_name).version_added
        ELSE IF get_existing_opt(existing_options, var_name)._existing THEN ""
        ELSE analysis.version]

\* The ArgumentSpec built for a variable found in a task file: the same code
\* at the three places that add one (own file, included file, recursion).
task_argument_spec(var_name, generated_description, analysis, existing_options) ==
    LET existing_opt == get_existing_opt(existing_options, var_name)
        has_default == var_name \in DOMAIN analysis.defaults
                       \/ var_name \in DOMAIN analysis.vars
    IN [name |-> var_name,
        type |-> "str",
        required |-> ~has_default,
        default |-> NoneVal,
        choices |-> <<>>, elements |-> "", options |-> EmptyMap,
        description |->
           IF existing_opt.description # "" THEN existing_opt.description
           ELSE generated_description,
        version_added |->
           IF existing_opt.version_added # "" THEN existing_opt.version_added
           ELSE IF existing_opt._existing THEN ""
           ELSE analysis.version]

\* First pass: every key of defaults.
add_default_variables(analysis, existing_options, context) ==
    [var_name \in DOMAIN analysis.defaults |->
        LET existing_opt == get_existing_opt(existing_options, var_name)
        IN infer_argument_spec(var_name, analysis.defaults[var_name],
                               existing_opt.description, existing_opt.version_added,
                               existing_opt._existing, analysis.version, context)]

\* A vars pass that writes every key of vars, option already or not.
add_vars_variables_overwriting(options, analysis, existing_options, context) ==
    [var_name \in DOMAIN options \cup DOMAIN analysis.vars |->
        IF var_name \in DOMAIN analysis.vars
        THEN infer_argument_spec(var_name, analysis.vars[var_name],
                 get_existing_opt(existing_options, var_name).description,
                 get_existing_opt(existing_options, var_name).version_added,
                 get_existing_opt(existing_options, var_name)._existing,
                 analysis.version, context)
        ELSE options[var_name]]

\* Second pass: every key of vars that is not an option yet.
add_vars_variables(options, analysis, existing_options, context) ==
    [var_name \in DOMAIN options \cup DOMAIN analysis.vars |->
        IF var_name \in DOMAIN options THEN options[var_name]
        ELSE LET existing_opt == get_existing_opt(existing_options, var_name)
                 arg_spec == infer_argument_spec(var_name, analysis.vars[var_name],
                                existing_opt.description, existing_opt.version_added,
                                existing_opt._existing, analysis.version, context)
             IN IF existing_opt.description = ""
                THEN [arg_spec EXCEPT !.description = @ \o " (defined in vars)"]
                ELSE arg_spec]

\* A third pass that also keeps every option the existing spec lists.
add_entry_point_variables_keeping_existing(options, entry_point_name, analysis, existing_options) ==
    LET entry_point_vars ==
            (IF entry_point_name \in DOMAIN analysis.file_variables
             THEN analysis.file_variables[entry_point_name] ELSE {})
            \cup DOMAIN existing_options
    IN [var_name \in DOMAIN options \cup entry_point_vars |->
          IF var_name \in DOMAIN options THEN options[var_name]
          ELSE task_argument_spec(var_name,
                   "Variable used in " \o entry_point_name \o " entry point",
                   analysis, existing_options)]

\* Third pass: the variables of the entry point's own task file.
add_entry_point_variables(options, entry_point_name, analysis, existing_options) ==
    LET entry_point_vars ==
            IF entry_point_name \in DOMAIN analysis.file_variables
            THEN analysis.file_variables[entry_point_name] ELSE {}
    IN [var_name \in DOMAIN options \cup entry_point_vars |->
          IF var_name \in DOMAIN options THEN options[var_name]
          ELSE task_argument_spec(var_name,
                   "Variable used in " \o entry_point_name \o " entry point",
                   analysis, existing_options)]

\* Fourth pass.  The state threaded through it: the options so far, the
\* visited files, and three observations of the run itself: the number of
\* calls of collect_recursive_variables, whether that number passed
\* CallBudget, and how often each name was assigned by this pass.
CallBudget == Cardinality(Stems) * (Cardinality(Stems) + 1) + 1

\* The body run for one file: its variables that are not options yet are added.
add_file_variables(st, file_name, analysis, existing_options) ==
    IF file_name \notin DOMAIN analysis.file_variables THEN st
    ELSE LET added == analysis.file_variables[file_name] \ DOMAIN st.options
         IN [st EXCEPT
               !.options = [var_name \in DOMAIN st.options \cup added |->
                   IF var_name \in DOMAIN st.options THEN st.options[var_name]
                   ELSE task_argument_spec(var_name,
                            "Variable used in included task file: " \o file_name \o ".yml",
                            analysis, existing_options)],
               !.adds = [var_name \in TaskNames |->
                   st.adds[var_name] + (IF var_name \in added THEN 1 ELSE 0)]]

\* A recursion that never recognises a file it has been in.
never_visited(file_name, visited) == FALSE

\* `if file_name in visited: return`
already_visited(file_name, visited) == file_name \in visited

RECURSIVE collect_recursive_variables(_, _, _, _, _)
RECURSIVE collect_each(_, _, _, _, _)

collect_recursive_variables(file_name, st, analysis, existing_options, ord) ==
    IF st.calls >= CallBudget THEN [st EXCEPT !.exhausted = TRUE]
    ELSE LET entered == [st EXCEPT !.calls = @ + 1] IN
         IF already_visited(file_name, entered.visited) THEN entered
         ELSE LET marked == [entered EXCEPT !.visited = @ \cup {file_name}]
                  merged == add_file_variables(marked, file_name, analysis, existing_options)
                  sub_includes ==
                      IF file_name \in DOMAIN analysis.file_includes_map
                      THEN analysis.file_includes_map[file_name] ELSE {}
              IN collect_each(IterationOrder(sub_includes, ord), merged, analysis,
                              existing_options, ord)

\* `for f in files: collect_recursive_variables(f, visited)`
collect_each(files, st, analysis, existing_options, ord) ==
    IF files = <<>> THEN st
    ELSE collect_each(Tail(files),
             collect_recursive_variables(Head(files), st, analysis, existing_options, ord),
             analysis, existing_options, ord)

RECURSIVE add_each(_, _, _, _)
\* `for included_file in included_files:` the first, non-recursive loop
add_each(files, st, analysis, existing_options) ==
    IF files = <<>> THEN st
    ELSE add_each(Tail(files),
             add_file_variables(st, Head(files), analysis, existing_options),
             analysis, existing_options)

merge_included_variables(options, entry_point_name, analysis, existing_options, ord) ==
    LET included_files ==
            IF entry_point_name \in DOMAIN analysis.file_includes_map
            THEN analysis.file_includes_map[entry_point_name] ELSE {}
        files == IterationOrder(included_files, ord)
        start == [options |-> options, visited |-> {}, calls |-> 0,
                  exhausted |-> FALSE, adds |-> [n \in TaskNames |-> 0]]
    IN collect_each(files, add_each(files, start, analysis, existing_options),
                    analysis, existing_options, ord)

\* The four passes of _create_entry_point_spec, in the order of the code.
options_after_defaults(analysis, existing_specs, context) ==
    add_default_variables(analysis, existing_specs.options, context)

options_after_vars(analysis, existing_specs, context) ==
    add_vars_variables(options_after_defaults(analysis, existing_specs, context),
                       analysis, existing_specs.options, context)

options_after_own(entry_point_name, analysis, existing_specs, context) ==
    add_entry_point_variables(options_after_vars(analysis, existing_specs, context),
                              entry_point_name, analysis, existing_specs.options)

merge_result(entry_point_name, analysis, existing_specs, ord, context) ==
    merge_included_variables(
        options_after_own(entry_point_name, analysis, existing_specs, context),
        entry_point_name, analysis, existing_specs.options, ord)

\* The defaults and vars passes raise when inference raises on one of their keys.
create_entry_point_spec_raises(analysis, existing_specs) ==
    \/ \E n \in DOMAIN analysis.defaults :
          infer_raises(n, analysis.defaults[n],
                       get_existing_opt(existing_specs.options, n).description)
    \/ \E n \in DOMAIN analysis.vars \ DOMAIN analysis.defaults :
          infer_raises(n, analysis.vars[n],
                       get_existing_opt(existing_specs.options, n).description)

entry_point_description(entry_point_name, role_name, analysis, existing_specs) ==
    IF "description" \in existing_specs.keys THEN existing_specs.description
    ELSE IF analysis.meta_description # <<>> THEN analysis.meta_description
    ELSE LET included_files ==
                 IF entry_point_name \in DOMAIN analysis.file_includes_map
                 THEN analysis.file_includes_map[entry_point_name] ELSE {}
         IN <<"Automatically generated argument specification for the "
                 \o role_name \o " role.",
              "Entry point: " \o entry_point_name>>
            \o (IF included_files # {}
                THEN <<"Includes task files: "
                        \o JoinStems(IterationOrder(included_files, SortedStems))>>
                ELSE <<>>)

entry_point_short_description(entry_point_name, role_name, analysis, existing_specs) ==
    IF "short_description" \in existing_specs.keys THEN existing_specs.short_description
    ELSE IF analysis.meta_short_description # "" THEN analysis.meta_short_description
    ELSE "Auto-generated specs for " \o role_name \o " role - "
            \o entry_point_name \o " entry point"

entry_point_author(analysis, existing_specs) ==
    IF "author" \in existing_specs.keys THEN existing_specs.author
    ELSE analysis.authors

create_entry_point_spec(entry_point_name, role_name, analysis, existing_specs, ord, context) ==
    [name |-> entry_point_name,
     short_description |->
        entry_point_short_description(entry_point_name, role_name, analysis, existing_specs),
     description |->
        entry_point_description(entry_point_name, role_name, analysis, existing_specs),
     author |-> entry_point_author(analysis, existing_specs),
     options |-> merge_result(entry_point_name, analysis, existing_specs, ord, context).options,
     required_if |-> <<>>,
     required_one_of |-> <<>>,
     mutually_exclusive |-> <<>>,
     required_together |-> <<>>]

(***************************************************************************)
(* Serialization and the loader of a previously written file.              *)
(***************************************************************************)

\* ArgumentSpec.to_dict: type always, the other keys only when set.
ArgumentSpec_to_dict(arg_spec) ==
    [keys |-> {"type"}
              \cup (IF arg_spec.description # "" THEN {"description"} ELSE {})
              \cup (IF arg_spec.required THEN {"required"} ELSE {})
              \cup (IF arg_spec.default # NoneVal THEN {"default"} ELSE {})
              \cup (IF arg_spec.choices # <<>> THEN {"choices"} ELSE {})
              \cup (IF arg_spec.elements # "" THEN {"elements"} ELSE {})
              \cup (IF DOMAIN arg_spec.options # {} THEN {"options"} ELSE {})
              \cup (IF arg_spec.version_added # "" THEN {"version_added"} ELSE {}),
     description |-> arg_spec.description,
     type |-> arg_spec.type,
     required |-> arg_spec.required,
     default |-> arg_spec.default,
     choices |-> arg_spec.choices,
     elements |-> arg_spec.elements,
     options |-> arg_spec.options,
     version_added |-> arg_spec.version_added]

\* sorted(self.options.items()) compares the keys: a bool key and a str key
\* do not compare and sorted raises TypeError.
to_dict_raises(entry_point) ==
    NonStrKey \in DOMAIN entry_point.options
    /\ DOMAIN entry_point.options \cap TaskNames # {}

\* EntryPointSpec.to_dict: every key only when its value is truthy.
EntryPointSpec_to_dict(entry_point) ==
    [name |-> entry_point.name,
     keys |-> (IF entry_point.short_description # "" THEN {"short_description"} ELSE {})
              \cup (IF entry_point.description # <<>> THEN {"description"} ELSE {})
              \cup (IF entry_point.author # <<>> THEN {"author"} ELSE {})
              \cup (IF DOMAIN entry_point.options # {} THEN {"options"} ELSE {})
              \cup (IF entry_point.required_if # <<>> THEN {"required_if"} ELSE {})
              \cup (IF entry_point.required_one_of # <<>> THEN {"required_one_of"} ELSE {})
              \cup (IF entry_point.mutually_exclusive # <<>> THEN {"mutually_exclusive"} ELSE {})
              \cup (IF entry_point.required_together # <<>> THEN {"required_together"} ELSE {}),
     short_description |-> entry_point.short_description,
     description |-> entry_point.description,
     author |-> entry_point.author,
     options |-> [n \in DOMAIN entry_point.options |->
                    ArgumentSpec_to_dict(entry_point.options[n])],
     required_if |-> entry_point.required_if,
     required_one_of |-> entry_point.required_one_of,
     mutually_exclusive |-> entry_point.mutually_exclusive,
     required_together |-> entry_point.required_together]

generate_yaml_raises(eps) == \E i \in 1..Len(eps) : to_dict_raises(eps[i])

\* The document written to argument_specs.yml.
generate_yaml(eps) ==
    [exists |-> TRUE, eps |-> [i \in 1..Len(eps) |-> EntryPointSpec_to_dict(eps[i])],
     fault |-> "none"]

\* A loader that takes the version of an option for its description.
load_existing_option_confused(opt_data) ==
    [_existing |-> TRUE,
     description |-> IF "version_added" \in opt_data.keys THEN opt_data.version_added ELSE "",
     version_added |-> IF "version_added" \in opt_data.keys THEN opt_data.version_added ELSE ""]

\* load_existing_specs: per entry point the three text fields that are
\* present, per option the description and version_added that are present and
\* the flag _existing.
load_existing_option(opt_data) ==
    [_existing |-> TRUE,
     description |-> IF "description" \in opt_data.keys THEN opt_data.description ELSE "",
     version_added |-> IF "version_added" \in opt_data.keys THEN opt_data.version_added ELSE ""]

load_existing_entry(entry_data) ==
    [keys |-> entry_data.keys \cap {"description", "short_description", "author"},
     short_description |->
        IF "short_description" \in entry_data.keys THEN entry_data.short_description ELSE "",
     description |->
        IF "description" \in entry_data.keys THEN entry_data.description ELSE <<>>,
     author |-> IF "author" \in entry_data.keys THEN entry_data.author ELSE <<>>,
     options |->
        IF "options" \in entry_data.keys
        THEN [n \in DOMAIN entry_data.options |-> load_existing_option(entry_data.options[n])]
        ELSE EmptyMap]

load_existing_specs(spec) ==
    IF ~spec.exists \/ spec.fault # "none" THEN EmptyMap
    ELSE [name \in { spec.eps[i].name : i \in 1..Len(spec.eps) } |->
            load_existing_entry(
                spec.eps[CHOOSE i \in 1..Len(spec.eps) : spec.eps[i].name = name])]

\* existing_specs.get(entry_point_name, {})
get_existing_entry(existing_specs, entry_point_name) ==
    IF entry_point_name \in DOMAIN existing_specs THEN existing_specs[entry_point_name]
    ELSE NoExistingEntry

(***************************************************************************)
(* Processing one role and a whole collection.  `gen` holds the fields of  *)
(* the generator a call changes, `disk` the role directories.              *)
(***************************************************************************)
InitialStats == [roles_processed |-> 0, roles_failed |-> 0, total_variables |-> 0,
                 new_variables |-> 0, existing_variables |-> 0,
                 entry_points_created |-> 0]

total_vars(eps) ==
    SumSeq([i \in 1..Len(eps) |-> Cardinality(DOMAIN eps[i].options)])

new_vars(eps, version) ==
    SumSeq([i \in 1..Len(eps) |->
        Cardinality({ n \in DOMAIN eps[i].options :
            eps[i].options[n].version_added # ""
            /\ eps[i].options[n].version_added = version })])

\* A count of the existing variables that leaves out those without a version.
existing_vars_versioned_only(eps, version) ==
    SumSeq([i \in 1..Len(eps) |->
        Cardinality({ n \in DOMAIN eps[i].options :
            eps[i].options[n].version_added # ""
            /\ eps[i].options[n].version_added # version })])

\* The variables that have no version or another version than the detected one.
existing_vars(eps, version) ==
    SumSeq([i \in 1..Len(eps) |->
        Cardinality({ n \in DOMAIN eps[i].options :
            \/ eps[i].options[n].version_added = ""
            \/ eps[i].options[n].version_added # version })])

\* save_role_specs writing whatever the mode.
save_role_specs_ignoring_dry_run(disk, role_name, eps, dr) ==
    IF eps = <<>> THEN disk
    ELSE [disk EXCEPT ![role_name].spec = generate_yaml(eps)]

\* save_role_specs: the document is generated first; in dry-run mode nothing
\* is written.
save_role_specs(disk, role_name, eps, dr) ==
    IF eps = <<>> \/ dr THEN disk
    ELSE [disk EXCEPT ![role_name].spec = generate_yaml(eps)]

\* What the fourth pass did for one entry point: kept beside the result of a
\* call so that its termination and its additions can be stated.
observation(m) == [exhausted |-> m.exhausted, adds |-> m.adds, visited |-> m.visited]

merge_observation(entry_point_name, analysis, existing_specs, ord, context) ==
    observation(merge_result(entry_point_name, analysis, existing_specs, ord, context))

\* The index of the first entry point whose creation raises, 0 when none does.
first_raising(analysis, existing_specs) ==
    LET names == analysis.entry_points
        raising == { i \in 1..Len(names) :
                       create_entry_point_spec_raises(analysis,
                           get_existing_entry(existing_specs, names[i])) }
    IN IF raising = {} THEN 0
       ELSE CHOOSE i \in raising : \A j \in raising : i <= j

\* `for entry_point_name in analysis["entry_points"]:` up to the entry point
\* that raises, if one does.
create_entry_points(n_built, role_name, analysis, existing_specs, ord, context) ==
    [i \in 1..n_built |->
        create_entry_point_spec(analysis.entry_points[i], role_name, analysis,
            get_existing_entry(existing_specs, analysis.entry_points[i]), ord, context)]

observe_merges(n_built, analysis, existing_specs, ord, context) ==
    [i \in 1..n_built |->
        merge_observation(analysis.entry_points[i], analysis,
            get_existing_entry(existing_specs, analysis.entry_points[i]), ord, context)]

\* The rest of process_single_role once the entry points are built: the
\* statistics, then the save in collection mode.
count_and_save(cleared, disk, role_name, cm, dr, analysis, context, existing_specs, raising, built, merges) ==
    LET analysed == [cleared EXCEPT !.variable_context = context,
                                    !.entry_points = built,
                                    !.stats.entry_points_created = @ + Len(built)]
        counted == [analysed EXCEPT
                      !.stats.total_variables = @ + total_vars(built),
                      !.stats.new_variables = @ + new_vars(built, analysis.version),
                      !.stats.existing_variables =
                          @ + existing_vars(built, analysis.version)]
    IN
    IF raising # 0
    THEN [gen |-> analysed, disk |-> disk, raised |-> TRUE, wrote |-> FALSE,
          existing |-> existing_specs, merges |-> merges, version |-> analysis.version]
    ELSE IF cm /\ generate_yaml_raises(built)
    THEN [gen |-> counted, disk |-> disk, raised |-> TRUE, wrote |-> FALSE,
          existing |-> existing_specs, merges |-> merges, version |-> analysis.version]
    ELSE [gen |-> counted,
          disk |-> IF cm THEN save_role_specs(disk, role_name, built, dr) ELSE disk,
          raised |-> FALSE,
          wrote |-> cm /\ ~dr,
          existing |-> existing_specs, merges |-> merges, version |-> analysis.version]

\* process_single_role from the loop over the entry points on.
generate_entry_points(cleared, disk, role_name, ord, cm, dr, analysis, context, existing_specs, raising) ==
    count_and_save(cleared, disk, role_name, cm, dr, analysis, context, existing_specs,
        raising,
        create_entry_points(IF raising = 0 THEN Len(analysis.entry_points) ELSE raising - 1,
                            role_name, analysis, existing_specs, ord, context),
        observe_merges(IF raising = 0 THEN Len(analysis.entry_points) ELSE raising - 1,
                       analysis, existing_specs, ord, context))

\* process_single_role once the role directory is known to exist.
process_existing_role(cleared, disk, role_name, ord, cm, dr, analysis, existing_specs) ==
    generate_entry_points(cleared, disk, role_name, ord, cm, dr, analysis,
        analyze_variable_usage_context(disk[role_name]), existing_specs,
        first_raising(analysis, existing_specs))

process_single_role(gen, galaxy, disk, role_name, ord, cm, dr) ==
    IF role_name \notin DOMAIN disk
    THEN \* analyze_role_structure raises FileNotFoundError
         [gen |-> [gen EXCEPT !.current_role = IF @ = "" THEN role_name ELSE @,
                              !.variable_context = {}],
          disk |-> disk, raised |-> TRUE, wrote |-> FALSE,
          existing |-> EmptyMap, merges |-> <<>>, version |-> ""]
    ELSE process_existing_role(
             [gen EXCEPT !.current_role = IF @ = "" THEN role_name ELSE @,
                         !.variable_context = {}],
             disk, role_name, ord, cm, dr,
             analyze_role_structure(galaxy, disk[role_name]),
             load_existing_specs(disk[role_name].spec))

\* A directory under roles/ is a role when it holds one of the indicator
\* directories; of those the model has tasks/, defaults/ and meta/.
is_role_dir(role) ==
    \/ DOMAIN role.tasks # {}
    \/ DOMAIN role.defaults # {}
    \/ role.meta # NoMeta
    \/ role.spec.exists

find_roles(disk) ==
    SelectSeq(SortedRoleNames, LAMBDA r : r \in DOMAIN disk /\ is_role_dir(disk[r]))

\* The body of the loop of process_collection for one role: the call, and
\* the try/except around it.
record_role_outcome(role_name, run, res) ==
    [gen |-> IF ~res.raised
             THEN [res.gen EXCEPT !.processed_roles = Append(@, role_name),
                                  !.stats.roles_processed = @ + 1]
             ELSE [res.gen EXCEPT !.stats.roles_failed = @ + 1],
     disk |-> res.disk,
     attempted |-> Append(run.attempted, role_name),
     failed |-> IF res.raised THEN Append(run.failed, role_name) ELSE run.failed]

process_one_of_collection(role_name, run, galaxy, ord, cm, dr) ==
    record_role_outcome(role_name, run,
        process_single_role([run.gen EXCEPT !.current_role = role_name], galaxy,
                            run.disk, role_name, ord, cm, dr))

\* A loop that gives up at the first role that fails.
RECURSIVE process_roles_until_failure(_, _, _, _, _, _)
stop_or_go_on(role_names, run, next, galaxy, ord, cm, dr) ==
    IF next.failed # run.failed THEN next
    ELSE process_roles_until_failure(Tail(role_names), next, galaxy, ord, cm, dr)

process_roles_until_failure(role_names, run, galaxy, ord, cm, dr) ==
    IF role_names = <<>> THEN run
    ELSE stop_or_go_on(role_names, run,
             process_one_of_collection(Head(role_names), run, galaxy, ord, cm, dr),
             galaxy, ord, cm, dr)

\* `for role_name in roles:` with `continue` in the except clause.
RECURSIVE process_roles(_, _, _, _, _, _)
process_roles(role_names, run, galaxy, ord, cm, dr) ==
    IF role_names = <<>> THEN run
    ELSE process_roles(Tail(role_names),
             process_one_of_collection(Head(role_names), run, galaxy, ord, cm, dr),
             galaxy, ord, cm, dr)

\* process_collection: CollectionNotFoundError when there is no roles
\* directory or no role in it; else every role in turn, then the label is reset.
end_collection(found, done) ==
    [gen |-> [done.gen EXCEPT !.current_role = ""], disk |-> done.disk,
     raised |-> FALSE, found |-> found,
     attempted |-> done.attempted, failed |-> done.failed]

process_found_roles(gen, galaxy, disk, ord, cm, dr, found) ==
    IF found = <<>>
    THEN [gen |-> gen, disk |-> disk, raised |-> TRUE, found |-> found,
          attempted |-> <<>>, failed |-> <<>>]
    ELSE end_collection(found,
             process_roles(found,
                 [gen |-> gen, disk |-> disk, attempted |-> <<>>, failed |-> <<>>],
                 galaxy, ord, cm, dr))

process_collection(gen, galaxy, disk, ord, cm, dr) ==
    process_found_roles(gen, galaxy, disk, ord, cm, dr, find_roles(disk))

(***************************************************************************)
(* Specs built from a configuration file, and their validation.            *)
(***************************************************************************)
ArgumentType == {"str", "int", "float", "bool", "list", "dict", "path", "raw"}

NoConfig == [exists |-> FALSE, arguments |-> EmptyMap, required_if |-> <<>>,
             required_one_of |-> <<>>, mutually_exclusive |-> <<>>,
             required_together |-> <<>>]

\* self.entry_points[entry_point.name] = entry_point, on an insertion-ordered dict
add_entry_point(eps, entry_point) ==
    IF \E i \in 1..Len(eps) : eps[i].name = entry_point.name
    THEN [i \in 1..Len(eps) |->
            IF eps[i].name = entry_point.name THEN entry_point ELSE eps[i]]
    ELSE Append(eps, entry_point)

\* from_config_file, for a file with the one entry point "main": every
\* argument and every condition list is copied as written.
from_config_file(eps, cfg) ==
    add_entry_point(eps,
        [name |-> "main", short_description |-> "", description |-> <<>>,
         author |-> <<>>,
         options |-> [n \in DOMAIN cfg.arguments |->
                        [name |-> n, type |-> cfg.arguments[n], required |-> FALSE,
                         default |-> NoneVal, choices |-> <<>>, elements |-> "",
                         options |-> EmptyMap, description |-> "",
                         version_added |-> ""]],
         required_if |-> cfg.required_if,
         required_one_of |-> cfg.required_one_of,
         mutually_exclusive |-> cfg.mutually_exclusive,
         required_together |-> cfg.required_together])

\* condition[2] if it is a list, else [condition[2]]
required_params(condition) ==
    IF condition[3].kind = "list" THEN condition[3].items ELSE <<condition[3].items[1]>>

\* The check of one required_if condition: only a condition of three or more
\* elements is looked at.
required_if_valid(condition, all_args) ==
    IF Len(condition) >= 3
    THEN /\ condition[1] \in all_args
         /\ \A k \in 1..Len(required_params(condition)) :
               required_params(condition)[k] \in all_args
    ELSE TRUE

\* The check of one condition of the three other groups: every member.
group_valid(condition, all_args) ==
    \A k \in 1..Len(condition) : condition[k] \in all_args

entry_point_valid(entry_point) ==
    LET all_args == DOMAIN entry_point.options
    IN /\ \A n \in DOMAIN entry_point.options :
             entry_point.options[n].type \in ArgumentType
       /\ \A k \in 1..Len(entry_point.required_if) :
             required_if_valid(entry_point.required_if[k], all_args)
       /\ \A k \in 1..Len(entry_point.required_one_of) :
             group_valid(entry_point.required_one_of[k], all_args)
       /\ \A k \in 1..Len(entry_point.mutually_exclusive) :
             group_valid(entry_point.mutually_exclusive[k], all_args)
       /\ \A k \in 1..Len(entry_point.required_together) :
             group_valid(entry_point.required_together[k], all_args)

validate_specs(eps) == \A i \in 1..Len(eps) : entry_point_valid(eps[i])

(***************************************************************************)
(* The state machine: edits made to the files by their author, and calls   *)
(* of the generator.                                                       *)
(***************************************************************************)
NoCall == [op |-> "none", role |-> "", raised |-> FALSE, wrote |-> FALSE,
           repeat |-> FALSE, existing |-> EmptyMap, merges |-> <<>>,
           version |-> "", prev_version |-> "",
           found |-> <<>>, attempted |-> <<>>, failed |-> <<>>,
           stats_before |-> InitialStats, processed_before |-> <<>>,
           disk_before |-> EmptyMap, result |-> TRUE]

Generator ==
    [entry_points |-> entry_points, variable_context |-> variable_context,
     current_role |-> current_role, stats |-> stats,
     processed_roles |-> processed_roles]

SetGenerator(gen) ==
    /\ entry_points' = gen.entry_points
    /\ variable_context' = gen.variable_context
    /\ current_role' = gen.current_role
    /\ stats' = gen.stats
    /\ processed_roles' = gen.processed_roles

GeneratorUnchanged ==
    UNCHANGED <<collection_mode, dry_run, entry_points, processed_roles,
                variable_context, current_role, stats, calls_left>>

\* One edit of the files of a role.
EditRole(r, role) ==
    /\ edits_left > 0
    /\ r \in DOMAIN roles
    /\ role # roles[r]
    /\ roles' = [roles EXCEPT ![r] = role]
    /\ edits_left' = edits_left - 1
    /\ last' = [last EXCEPT !.op = "edit"]
    /\ UNCHANGED <<pc, sample, galaxy_version, config>>
    /\ GeneratorUnchanged

task_file(role, f) == IF f \in DOMAIN role.tasks THEN role.tasks[f] ELSE EmptyTaskFile

with_task_file(role, f, file) ==
    [role EXCEPT !.tasks = [g \in DOMAIN role.tasks \cup {f} |->
                               IF g = f THEN file ELSE role.tasks[g]]]

with_key(map, k, v) == [x \in DOMAIN map \cup {k} |-> IF x = k THEN v ELSE map[x]]

SetDefault(r, k, v) ==
    /\ r \in DOMAIN roles
    /\ EditRole(r, [roles[r] EXCEPT !.defaults = with_key(@, k, v)])

SetVar(r, k, v) ==
    /\ r \in DOMAIN roles
    /\ EditRole(r, [roles[r] EXCEPT !.vars = with_key(@, k, v)])

AddTaskFile(r, f) ==
    /\ r \in DOMAIN roles
    /\ EditRole(r, with_task_file(roles[r], f, task_file(roles[r], f)))

AddTaskVariable(r, f, n) ==
    /\ r \in DOMAIN roles
    /\ EditRole(r, with_task_file(roles[r], f,
                      [task_file(roles[r], f) EXCEPT !.vars = @ \cup {n}]))

AddUsageContext(r, f, n) ==
    /\ r \in DOMAIN roles
    /\ EditRole(r, with_task_file(roles[r], f,
                      [task_file(roles[r], f) EXCEPT !.ctx = @ \cup {n}]))

AddInclude(r, f, g) ==
    /\ r \in DOMAIN roles
    /\ EditRole(r, with_task_file(roles[r], f,
                      [task_file(roles[r], f) EXCEPT !.includes = @ \cup {g}]))

AddNestedInclude(r, f, g) ==
    /\ r \in DOMAIN roles
    /\ EditRole(r, with_task_file(roles[r], f,
                      [task_file(roles[r], f) EXCEPT !.nested = @ \cup {g}]))

SetMetaVersion(r, v) ==
    /\ r \in DOMAIN roles
    /\ EditRole(r, [roles[r] EXCEPT !.meta.version = v])

SetMetaAuthors(r, a) ==
    /\ r \in DOMAIN roles
    /\ EditRole(r, [roles[r] EXCEPT !.meta.authors = a])

SetMetaDescription(r, d) ==
    /\ r \in DOMAIN roles
    /\ EditRole(r, [roles[r] EXCEPT !.meta.description = d])

SetGalaxyVersion(v) ==
    /\ edits_left > 0
    /\ v # galaxy_version
    /\ galaxy_version' = v
    /\ edits_left' = edits_left - 1
    /\ last' = [last EXCEPT !.op = "edit"]
    /\ UNCHANGED <<pc, sample, roles, config>>
    /\ GeneratorUnchanged

\* Hand edits of a role's argument_specs.yml.
EmptyEntryDoc(ep) ==
    [name |-> ep, keys |-> {}, short_description |-> "", description |-> <<>>,
     author |-> <<>>, options |-> EmptyMap, required_if |-> <<>>,
     required_one_of |-> <<>>, mutually_exclusive |-> <<>>,
     required_together |-> <<>>]

has_entry(spec, ep) == \E i \in 1..Len(spec.eps) : spec.eps[i].name = ep

entry_doc(spec, ep) ==
    IF has_entry(spec, ep)
    THEN spec.eps[CHOOSE i \in 1..Len(spec.eps) : spec.eps[i].name = ep]
    ELSE EmptyEntryDoc(ep)

with_entry_doc(spec, doc) ==
    [exists |-> TRUE, fault |-> "none",
     eps |-> IF has_entry(spec, doc.name)
             THEN [i \in 1..Len(spec.eps) |->
                     IF spec.eps[i].name = doc.name THEN doc ELSE spec.eps[i]]
             ELSE Append(spec.eps, doc)]

\* The author writes (or empties) the author list of an entry point.
HandSetAuthor(r, ep, a) ==
    /\ r \in DOMAIN roles
    /\ EditRole(r, [roles[r] EXCEPT !.spec =
            with_entry_doc(@, [entry_doc(@, ep) EXCEPT !.keys = @ \cup {"author"},
                                                      !.author = a])])

\* The author writes (or empties) the description of an entry point.
HandSetDescription(r, ep, d) ==
    /\ r \in DOMAIN roles
    /\ EditRole(r, [roles[r] EXCEPT !.spec =
            with_entry_doc(@, [entry_doc(@, ep) EXCEPT !.keys = @ \cup {"description"},
                                                      !.description = d])])

\* The author lists an option, with or without a description and a version.
HandSetOption(r, ep, n, d, v) ==
    /\ r \in DOMAIN roles
    /\ EditRole(r, [roles[r] EXCEPT !.spec =
            with_entry_doc(@, [entry_doc(@, ep) EXCEPT
                !.keys = @ \cup {"options"},
                !.options = with_key(@, n,
                    [keys |-> {"type"}
                              \cup (IF d # "" THEN {"description"} ELSE {})
                              \cup (IF v # "" THEN {"version_added"} ELSE {}),
                     description |-> d, type |-> "str", required |-> FALSE,
                     default |-> NoneVal, choices |-> <<>>, elements |-> "",
                     options |-> EmptyMap, version_added |-> v])])])

\* Edits of the configuration file.
EditConfig(cfg) ==
    /\ edits_left > 0
    /\ cfg # config
    /\ config' = cfg
    /\ edits_left' = edits_left - 1
    /\ last' = [last EXCEPT !.op = "edit"]
    /\ UNCHANGED <<pc, sample, galaxy_version, roles>>
    /\ GeneratorUnchanged

ConfigSetArgument(n, t) ==
    EditConfig([config EXCEPT !.exists = TRUE, !.arguments = with_key(@, n, t)])

ConfigAddRequiredIf(condition) ==
    EditConfig([config EXCEPT !.exists = TRUE, !.required_if = Append(@, condition)])

ConfigAddRequiredOneOf(condition) ==
    EditConfig([config EXCEPT !.exists = TRUE, !.required_one_of = Append(@, condition)])

ConfigAddMutuallyExclusive(condition) ==
    EditConfig([config EXCEPT !.exists = TRUE,
                              !.mutually_exclusive = Append(@, condition)])

ConfigAddRequiredTogether(condition) ==
    EditConfig([config EXCEPT !.exists = TRUE,
                              !.required_together = Append(@, condition)])

\* The generator and the disk after a call of process_single_role.
AfterSingleRole(r, res) ==
    /\ SetGenerator(res.gen)
    /\ roles' = res.disk
    /\ last' = [NoCall EXCEPT !.op = "process_single_role", !.role = r,
                              !.raised = res.raised, !.wrote = res.wrote,
                              !.repeat = (last.op = "process_single_role"
                                          /\ last.role = r /\ last.wrote),
                              !.existing = res.existing,
                              !.merges = res.merges,
                              !.version = res.version,
                              !.prev_version = last.version,
                              !.stats_before = stats,
                              !.processed_before = processed_roles,
                              !.disk_before = roles]

\* ArgumentSpecsGenerator.process_single_role(role_path, role_name)
ProcessSingleRole(r, ord) ==
    /\ calls_left > 0
    /\ AfterSingleRole(r, process_single_role(Generator, galaxy_version, roles, r, ord,
                                              collection_mode, dry_run))
    /\ calls_left' = calls_left - 1
    /\ UNCHANGED <<pc, sample, galaxy_version, collection_mode, dry_run, config, edits_left>>

\* The generator and the disk after a call of process_collection.
AfterCollection(res) ==
    /\ SetGenerator(res.gen)
    /\ roles' = res.disk
    /\ last' = [NoCall EXCEPT !.op = "process_collection",
                              !.raised = res.raised,
                              !.found = res.found,
                              !.attempted = res.attempted,
                              !.failed = res.failed,
                              !.stats_before = stats,
                              !.processed_before = processed_roles,
                              !.disk_before = roles]

\* ArgumentSpecsGenerator.process_collection(collection_path)
ProcessCollection(ord) ==
    /\ calls_left > 0
    /\ AfterCollection(process_collection(Generator, galaxy_version, roles, ord,
                                          collection_mode, dry_run))
    /\ calls_left' = calls_left - 1
    /\ UNCHANGED <<pc, sample, galaxy_version, collection_mode, dry_run, config, edits_left>>

\* ArgumentSpecsGenerator.from_config_file(config_file), for a file that exists
FromConfigFile ==
    /\ calls_left > 0
    /\ config.exists
    /\ entry_points' = from_config_file(entry_points, config)
    /\ last' = [NoCall EXCEPT !.op = "from_config_file"]
    /\ calls_left' = calls_left - 1
    /\ UNCHANGED <<pc, sample, galaxy_version, roles, collection_mode, dry_run, processed_roles,
                   variable_context, current_role, stats, config, edits_left>>

\* ArgumentSpecsGenerator.validate_specs()
ValidateSpecs ==
    /\ calls_left > 0
    /\ last' = [NoCall EXCEPT !.op = "validate_specs",
                              !.result = validate_specs(entry_points)]
    /\ calls_left' = calls_left - 1
    /\ UNCHANGED <<pc, sample, galaxy_version, roles, collection_mode, dry_run, entry_points,
                   processed_roles, variable_context, current_role, stats, config,
                   edits_left>>

FreshGenerator ==
    /\ pc = Idle
    /\ entry_points = <<>>
    /\ processed_roles = <<>>
    /\ variable_context = {}
    /\ current_role = ""
    /\ stats = InitialStats
    /\ last = NoCall

(***************************************************************************)
(* Spec: one role, regenerated while its author edits its defaults, vars,  *)
(* task files and the argument_specs.yml written before.                   *)
(***************************************************************************)
Init ==
    /\ galaxy_version = ""
    /\ sample = NoSample
    /\ roles = [r \in {"web"} |-> EmptyRole]
    /\ config = NoConfig
    /\ collection_mode = TRUE
    /\ dry_run = FALSE
    /\ FreshGenerator
    /\ edits_left = MaxEdits
    /\ calls_left = MaxCalls

Next ==
    \/ SetDefault("web", "port", IntVal)
    \/ SetVar("web", "port", StrVal)
    \/ \E f \in Stems : AddTaskVariable("web", f, "port")
    \/ \E p \in {<<"main", "helpers">>, <<"helpers", "backup">>} :
           AddInclude("web", p[1], p[2])
    \/ SetGalaxyVersion("2.0.0")
    \/ SetMetaAuthors("web", <<"Alice">>)
    \/ \E a \in {<<>>, <<HandText>>} : HandSetAuthor("web", "main", a)
    \/ \E d \in {"", HandText}, v \in {"", HandVersion} :
           HandSetOption("web", "main", "port", d, v)
    \/ \E ord \in StemOrders : ProcessSingleRole("web", ord)

Spec == Init /\ [][Next]_vars

(***************************************************************************)
(* SpecGraph: one role whose task files come to include one another, then  *)
(* one run of the generator.                                               *)
(***************************************************************************)
FileVariable == [f \in Stems |-> IF f = "backup" THEN "db_host" ELSE "port"]

InitGraph ==
    /\ galaxy_version = ""
    /\ sample = NoSample
    /\ roles = [r \in {"web"} |-> EmptyRole]
    /\ config = NoConfig
    /\ collection_mode = TRUE
    /\ dry_run = FALSE
    /\ FreshGenerator
    /\ edits_left = MaxGraphEdits
    /\ calls_left = MaxGraphCalls

NextGraph ==
    \/ \E f \in Stems : AddTaskVariable("web", f, FileVariable[f])
    \/ \E f \in Stems, g \in Stems : AddInclude("web", f, g)
    \/ \E ord \in StemOrders : ProcessSingleRole("web", ord)

SpecGraph == InitGraph /\ [][NextGraph]_vars

(***************************************************************************)
(* SpecCollection: a collection of two roles, processed as a whole.        *)
(***************************************************************************)
InitCollection ==
    /\ galaxy_version = ""
    /\ sample = NoSample
    /\ roles = [r \in RoleNames |-> EmptyRole]
    /\ config = NoConfig
    /\ collection_mode = TRUE
    /\ dry_run = FALSE
    /\ FreshGenerator
    /\ edits_left = MaxEdits
    /\ calls_left = MaxCalls

NextCollection ==
    \/ \E r \in RoleNames, k \in {"port", NonStrKey} : SetDefault(r, k, IntVal)
    \/ \E r \in RoleNames : AddTaskVariable(r, "main", "db_host")
    \/ \E r \in RoleNames : HandSetOption(r, "main", NonStrKey, HandText, "")
    \/ \E ord \in {SortedStems} : ProcessCollection(ord)

SpecCollection == InitCollection /\ [][NextCollection]_vars

(***************************************************************************)
(* SpecValidate: specs built from a configuration file and validated.      *)
(***************************************************************************)
ListOf(items) == [kind |-> "list", items |-> items]
Scalar(item) == [kind |-> "str", items |-> <<item>>]

RequiredIfConditions ==
    { <<"port", "present", ListOf(<<"db_host">>)>>,
      <<"port", "present", Scalar("db_host")>>,
      <<"port", "present">> }

GroupConditions == { <<"port">>, <<"port", "db_host">> }

ConfigTypes == {"str", "int", "string"}

InitValidate ==
    /\ galaxy_version = ""
    /\ sample = NoSample
    /\ roles = [r \in {"web"} |-> EmptyRole]
    /\ config = NoConfig
    /\ collection_mode = FALSE
    /\ dry_run = FALSE
    /\ FreshGenerator
    /\ edits_left = MaxEdits
    /\ calls_left = MaxCalls

NextValidate ==
    \/ \E n \in TaskNames, t \in ConfigTypes : ConfigSetArgument(n, t)
    \/ \E c \in RequiredIfConditions : ConfigAddRequiredIf(c)
    \/ \E c \in GroupConditions : ConfigAddRequiredOneOf(c)
    \/ \E c \in GroupConditions : ConfigAddMutuallyExclusive(c)
    \/ \E c \in GroupConditions : ConfigAddRequiredTogether(c)
    \/ FromConfigFile
    \/ ValidateSpecs

SpecValidate == InitValidate /\ [][NextValidate]_vars

(***************************************************************************)
(* SpecVersion: _detect_version_info called on a role directory whose      *)
(* three ancestor directories and meta/main.yml are drawn from the files   *)
(* below.                                                                  *)
(***************************************************************************)
\* What a galaxy.yml in the i-th ancestor directory can be.
ManifestFiles(i) ==
    {AbsentFile, UnreadableFile, BlankFile,
     Document(yaml_str("just text")),
     Document(yaml_dict([k \in {"namespace"} |-> yaml_str("acme")])),
     Document(yaml_dict([k \in {"version"} |->
        yaml_str(<<"1.1.0", "1.2.0", "1.3.0">>[i])]))}
    \cup (IF i = 1
          THEN {Document(yaml_dict([k \in {"version"} |-> yaml_float("1.5")])),
                Document(yaml_dict([k \in {"version"} |-> NoneVal]))}
          ELSE {})

\* The values of the three version fields of meta/main.yml; AbsentKey leaves
\* the key out.
AbsentKey == [kind |-> "absent", repr |-> ""]
TopVersions == {AbsentKey, yaml_str(""), yaml_str("2.0.0"), yaml_int("0")}
GalaxyInfoVersions == {AbsentKey, yaml_str(""), yaml_str("2.1.0"), yaml_float("2.1")}
RoleVersions == {AbsentKey, NoneVal, yaml_str("2.2.0")}

mapping_of(keys, value_of) == [k \in {x \in keys : value_of[x] # AbsentKey} |-> value_of[k]]

MetaDocument(top, gi_version, gi_role_version) ==
    Document(yaml_dict(mapping_of({"version", "galaxy_info"},
        [k \in {"version", "galaxy_info"} |->
            IF k = "version" THEN top
            ELSE yaml_dict(mapping_of({"version", "role_version"},
                    [f \in {"version", "role_version"} |->
                        IF f = "version" THEN gi_version ELSE gi_role_version]))])))

MetaFiles ==
    {AbsentFile, UnreadableFile, BlankFile, Document(yaml_str("just text")),
     Document(yaml_dict([k \in {"galaxy_info"} |-> yaml_str("just text")]))}
    \cup { MetaDocument(t, g, r) : t \in TopVersions, g \in GalaxyInfoVersions,
                                   r \in RoleVersions }

InitVersion ==
    /\ galaxy_version = ""
    /\ \E a1 \in ManifestFiles(1), a2 \in ManifestFiles(2), a3 \in ManifestFiles(3),
          m \in MetaFiles :
          sample = [method |-> "_detect_version_info",
                    ancestors |-> <<a1, a2, a3>>, meta_file |-> m]
    /\ roles = EmptyMap
    /\ config = NoConfig
    /\ collection_mode = TRUE
    /\ dry_run = FALSE
    /\ FreshGenerator
    /\ last = NoCall
    /\ edits_left = 0
    /\ calls_left = 1

\* ArgumentSpecsGenerator._detect_version_info(role_dir)
DetectVersionInfo ==
    /\ calls_left > 0
    /\ sample.method = "_detect_version_info"
    /\ last' = [NoCall EXCEPT !.op = "_detect_version_info",
                              !.result = detect_version_info_files(sample.ancestors,
                                                                   sample.meta_file)]
    /\ calls_left' = calls_left - 1
    /\ UNCHANGED <<pc, sample, galaxy_version, roles, collection_mode, dry_run, entry_points,
                   processed_roles, variable_context, current_role, stats, config,
                   edits_left>>

NextVersion == DetectVersionInfo

SpecVersion == InitVersion /\ [][NextVersion]_vars

(***************************************************************************)
(* SpecInfer: _infer_argument_spec called on one name and one default      *)
(* value.                                                                  *)
(***************************************************************************)
MaxListLen == 3

yaml_bool(text) == [kind |-> "bool", repr |-> text]
yaml_list(elems) == [kind |-> "list", repr |-> "[...]", elems |-> elems]

\* What a list of defaults/main.yml can hold.
ListElements ==
    {yaml_bool("True"), yaml_int("1"), yaml_float("0.5"), yaml_str("a"),
     yaml_dict(EmptyMap), yaml_list(<<>>), NoneVal}

ListsUpTo(n) == UNION { [1..k -> ListElements] : k \in 0..n }

InferNames == {"config_path", "app_name", "LOG_DIR", "profile", "port"}

InferValues ==
    {yaml_bool("True"), yaml_bool("False"), yaml_int("8080"), yaml_int("0"),
     yaml_float("0.5"), yaml_dict(EmptyMap),
     yaml_dict([k \in {"a"} |-> yaml_int("1")]), NoneVal}
    \cup { yaml_str(t) : t \in {"", "myapp", "/etc/app/x", "C:\\logs", "variable",
                                "relative/x"} }
    \cup { yaml_list(l) : l \in ListsUpTo(MaxListLen) }

InitInfer ==
    /\ galaxy_version = ""
    /\ \E n \in InferNames, v \in InferValues :
          sample = [method |-> "_infer_argument_spec", name |-> n, value |-> v]
    /\ roles = EmptyMap
    /\ config = NoConfig
    /\ collection_mode = TRUE
    /\ dry_run = FALSE
    /\ FreshGenerator
    /\ last = NoCall
    /\ edits_left = 0
    /\ calls_left = 1

\* The type and the element type _infer_argument_spec gives its result.
inferred_type_and_elements(name, value) ==
    [type |-> infer_type(name, value), elements |-> infer_elements(value)]

\* ArgumentSpecsGenerator._infer_argument_spec(name, value)
InferArgumentSpec ==
    /\ calls_left > 0
    /\ sample.method = "_infer_argument_spec"
    /\ last' = [NoCall EXCEPT !.op = "_infer_argument_spec",
                              !.result = inferred_type_and_elements(sample.name,
                                                                    sample.value)]
    /\ calls_left' = calls_left - 1
    /\ UNCHANGED <<pc, sample, galaxy_version, roles, collection_mode, dry_run, entry_points,
                   processed_roles, variable_context, current_role, stats, config,
                   edits_left>>

NextInfer == InferArgumentSpec

SpecInfer == InitInfer /\ [][NextInfer]_vars

(***************************************************************************)
(* The name filter of variable extraction, and SpecName: the filter called *)
(* on one candidate.  A candidate is the sequence of its characters.       *)
(***************************************************************************)
BUILTIN_PREFIXES ==
    {"ansible_", "hostvars", "group_names", "groups", "inventory_hostname",
     "inventory_hostname_short", "play_hosts", "omit", "item", "loop"}

NON_VARIABLES ==
    {"true", "false", "yes", "no", "on", "off", "null", "none", "and", "or", "not",
     "in", "is", "defined", "undefined", "version", "default", "production",
     "staging", "development", "undef", "loop_var", "outer_item", "vars",
     "playbook_dir", "role_path", "inventory_dir"}

ascii_lowercase ==
    {"a", "b", "c", "d", "e", "f", "g", "h", "i", "j", "k", "l", "m", "n", "o", "p",
     "q", "r", "s", "t", "u", "v", "w", "x", "y", "z"}
ascii_uppercase ==
    {"A", "B", "C", "D", "E", "F", "G", "H", "I", "J", "K", "L", "M", "N", "O", "P",
     "Q", "R", "S", "T", "U", "V", "W", "X", "Y", "Z"}
digits == {"0", "1", "2", "3", "4", "5", "6", "7", "8", "9"}

\* str.isdigit()
isdigit(var_name) ==
    var_name # <<>> /\ \A i \in 1..Len(var_name) : var_name[i] \in digits

\* re.match(r"^[a-zA-Z_][a-zA-Z0-9_]*$", var_name)
identifier_match(var_name) ==
    /\ var_name # <<>>
    /\ var_name[1] \in ascii_lowercase \cup ascii_uppercase \cup {"_"}
    /\ \A i \in 2..Len(var_name) :
          var_name[i] \in ascii_lowercase \cup ascii_uppercase \cup digits \cup {"_"}

\* A filter that knows no built-in prefix.
is_valid_without_prefixes(is_str, var_name) ==
    /\ is_str
    /\ Len(var_name) >= 2
    /\ var_name[1] # "_"
    /\ \A w \in NON_VARIABLES : lower(var_name) # chars(w)
    /\ identifier_match(var_name)

\* _is_valid_role_variable; is_str is isinstance(var_name, str).
is_valid_role_variable(is_str, var_name) ==
    IF var_name = <<>> \/ ~is_str THEN FALSE
    ELSE IF \/ \E prefix \in BUILTIN_PREFIXES : startswith(var_name, chars(prefix))
            \/ \E w \in NON_VARIABLES : lower(var_name) = chars(w)
            \/ contains(var_name, <<"(">>)
            \/ contains(var_name, <<"[">>)
            \/ contains(var_name, <<".">>)
            \/ contains(var_name, <<" ">>)
            \/ isdigit(var_name)
            \/ Len(var_name) < 2
            \/ startswith(var_name, <<"_">>)
         THEN FALSE
    ELSE IF ~identifier_match(var_name) THEN FALSE
    ELSE TRUE

MaxCandidateLen == 3

CandidateAlphabet == {"a", "I", "1", "_", ".", "(", "[", " ", "-"}

CandidateNames ==
    {"port", "db_host", "my_var", "x1", "item", "items", "ansible_host", "hostvars",
     "host_vars", "omit", "omitted", "loop", "loop_count", "groups", "groups_list",
     "inventory_hostname", "yes", "Yes", "TRUE", "version", "Version", "in", "is",
     "vars", "role_path"}

Candidates ==
    UNION { [1..k -> CandidateAlphabet] : k \in 0..MaxCandidateLen }
    \cup { chars(n) : n \in CandidateNames }

InitName ==
    /\ galaxy_version = ""
    /\ \E c \in Candidates, is_str \in BOOLEAN :
          /\ ~is_str => c = <<>>
          /\ sample = [method |-> "_is_valid_role_variable", is_str |-> is_str,
                       var_name |-> c]
    /\ roles = EmptyMap
    /\ config = NoConfig
    /\ collection_mode = TRUE
    /\ dry_run = FALSE
    /\ FreshGenerator
    /\ last = NoCall
    /\ edits_left = 0
    /\ calls_left = 1

\* ArgumentSpecsGenerator._is_valid_role_variable(var_name)
IsValidRoleVariable ==
    /\ calls_left > 0
    /\ sample.method = "_is_valid_role_variable"
    /\ last' = [NoCall EXCEPT !.op = "_is_valid_role_variable",
                              !.result = is_valid_role_variable(sample.is_str,
                                                                sample.var_name)]
    /\ calls_left' = calls_left - 1
    /\ UNCHANGED <<pc, sample, galaxy_version, roles, collection_mode, dry_run, entry_points,
                   processed_roles, variable_context, current_role, stats, config,
                   edits_left>>

NextName == IsValidRoleVariable

SpecName == InitName /\ [][NextName]_vars

(***************************************************************************)
(* SpecFault: a role whose files fail to load, one after another, and the  *)
(* analysis of that role.  A task file that is not valid YAML gets its     *)
(* usage hints from the content patterns, which the model does not follow: *)
(* only task files without hints are broken.                               *)
(***************************************************************************)
MaxFaults == 3

FaultKinds == {"unreadable", "invalid_yaml"}

\* The file is there to be broken.
file_exists(role, file) ==
    CASE file = "galaxy.yml" -> galaxy_version # ""
      [] file = "meta" -> role.meta # NoMeta
      [] OTHER -> TRUE

BreakFile(r, file, kind) ==
    /\ r \in DOMAIN roles
    /\ file_exists(roles[r], file)
    /\ ~broken(roles[r], file)
    /\ EditRole(r, [roles[r] EXCEPT !.faults = with_key(@, file, kind)])

BreakSpecFile(r, kind) ==
    /\ r \in DOMAIN roles
    /\ roles[r].spec.exists
    /\ roles[r].spec.fault = "none"
    /\ EditRole(r, [roles[r] EXCEPT !.spec.fault = kind])

BreakTaskFile(r, f, kind) ==
    /\ r \in DOMAIN roles
    /\ f \in DOMAIN roles[r].tasks
    /\ roles[r].tasks[f].fault = "none"
    /\ roles[r].tasks[f].ctx = {}
    /\ EditRole(r, [roles[r] EXCEPT !.tasks[f].fault = kind])

\* ArgumentSpecsGenerator.analyze_role_structure(role_path): the hints found
\* on the way are stored in variable_context.
AnalyzeRoleStructure(r) ==
    /\ calls_left > 0
    /\ r \in DOMAIN roles
    /\ last' = [NoCall EXCEPT !.op = "analyze_role_structure", !.role = r,
                              !.result = analyze_role_structure(galaxy_version, roles[r])]
    /\ variable_context' = variable_context \cup analyze_variable_usage_context(roles[r])
    /\ calls_left' = calls_left - 1
    /\ UNCHANGED <<pc, sample, galaxy_version, roles, collection_mode, dry_run, entry_points,
                   processed_roles, current_role, stats, config, edits_left>>

\* ArgumentSpecsGenerator.load_existing_specs(role_path)
LoadExistingSpecs(r) ==
    /\ calls_left > 0
    /\ r \in DOMAIN roles
    /\ last' = [NoCall EXCEPT !.op = "load_existing_specs", !.role = r,
                              !.result = load_existing_specs(roles[r].spec)]
    /\ calls_left' = calls_left - 1
    /\ UNCHANGED <<pc, sample, galaxy_version, roles, collection_mode, dry_run, entry_points,
                   processed_roles, variable_context, current_role, stats, config,
                   edits_left>>

\* A role with every kind of file, under a collection manifest.
PopulatedRole ==
    [defaults |-> [k \in {"port"} |-> IntVal],
     vars |-> [k \in {"db_host"} |-> StrVal],
     tasks |-> [f \in {"main", "helpers"} |->
                  IF f = "main"
                  THEN [EmptyTaskFile EXCEPT !.vars = {"db_host"}, !.includes = {"helpers"},
                                             !.nested = {"backup"}]
                  ELSE [EmptyTaskFile EXCEPT !.vars = {"port"}]],
     meta |-> [version |-> "2.0.0", authors |-> <<"Alice">>,
               description |-> <<HandText>>, short_description |-> HandText],
     spec |-> [exists |-> TRUE, fault |-> "none",
               eps |-> << [EmptyEntryDoc("main") EXCEPT
                              !.keys = {"options"},
                              !.options = [n \in {"port"} |->
                                  [keys |-> {"type", "description", "version_added"},
                                   description |-> HandText, type |-> "int",
                                   required |-> FALSE, default |-> NoneVal,
                                   choices |-> <<>>, elements |-> "",
                                   options |-> EmptyMap,
                                   version_added |-> HandVersion]]] >>],
     faults |-> EmptyMap]

InitFault ==
    /\ galaxy_version = "1.2.0"
    /\ sample = NoSample
    /\ roles = [r \in {"web"} |-> PopulatedRole]
    /\ config = NoConfig
    /\ collection_mode = TRUE
    /\ dry_run = FALSE
    /\ FreshGenerator
    /\ last = NoCall
    /\ edits_left = MaxFaults
    /\ calls_left = 1

NextFault ==
    \/ \E file \in {"galaxy.yml", "defaults", "vars", "meta"}, kind \in FaultKinds :
          BreakFile("web", file, kind)
    \/ \E kind \in FaultKinds : BreakSpecFile("web", kind)
    \/ \E f \in Stems, kind \in FaultKinds : BreakTaskFile("web", f, kind)
    \/ AnalyzeRoleStructure("web")
    \/ LoadExistingSpecs("web")

SpecFault == InitFault /\ [][NextFault]_vars

(***************************************************************************)
(* SpecConfig: from_config_file and from_defaults_file applied to one      *)
(* file, on a generator that holds nothing or one entry point added        *)
(* before.                                                                 *)
(***************************************************************************)
MalformedFile == [state |-> "malformed"]

\* A mapping as Python keeps it: its items, iterated in insertion order.
ordered_dict(order, items) == [kind |-> "dict", repr |-> "{...}", items |-> items, order |-> order]

\* dict.get(key, fallback)
dict_get(mapping, key, fallback) == IF key \in DOMAIN mapping.items THEN mapping.items[key] ELSE fallback

\* The ArgumentSpec built from one argument of a config file.
config_argument_spec(arg_name, arg_config) ==
    [name |-> arg_name,
     type |-> dict_get(arg_config, "type", yaml_str("str")).repr,
     required |-> dict_get(arg_config, "required", yaml_bool("False")).repr = "True",
     default |-> dict_get(arg_config, "default", NoneVal),
     choices |-> <<>>, elements |-> "", options |-> EmptyMap, description |-> "",
     version_added |-> ""]

\* The EntryPointSpec built from one entry of a config file: arguments that
\* are not mappings are skipped.
config_entry_point(entry_name, entry_config) ==
    [name |-> entry_name,
     short_description |-> dict_get(entry_config, "short_description", yaml_str("")).repr,
     description |-> <<>>,
     author |-> <<>>,
     options |-> [n \in {a \in DOMAIN dict_get(entry_config, "arguments", yaml_dict(EmptyMap)).items :
                           entry_config.items["arguments"].items[a].kind = "dict"} |->
                     config_argument_spec(n, entry_config.items["arguments"].items[n])],
     required_if |-> <<>>, required_one_of |-> <<>>, mutually_exclusive |-> <<>>,
     required_together |-> <<>>]

\* The loop over config["entry_points"].items(): an entry that is not a
\* mapping is skipped; .items() of an "arguments" that is not a mapping
\* raises AttributeError, after the entries before it were added.
RECURSIVE load_config_entries(_, _, _)
load_config_entries(eps, section, i) ==
    IF i > Len(section.order) THEN [error |-> "", entry_points |-> eps]
    ELSE IF section.items[section.order[i]].kind # "dict"
         THEN load_config_entries(eps, section, i + 1)
    ELSE IF dict_get(section.items[section.order[i]], "arguments", yaml_dict(EmptyMap)).kind # "dict"
         THEN [error |-> "AttributeError", entry_points |-> eps]
    ELSE load_config_entries(
             add_entry_point(eps, config_entry_point(section.order[i],
                                                     section.items[section.order[i]])),
             section, i + 1)

\* ArgumentSpecsGenerator.from_config_file(config_file): the exception that
\* leaves the call ("" for none) and the entry points held afterwards.
from_config_file_at(eps, config_file, is_json) ==
    IF config_file = AbsentFile THEN [error |-> "ConfigError", entry_points |-> eps]
    ELSE IF config_file = UnreadableFile THEN [error |-> "OSError", entry_points |-> eps]
    ELSE IF config_file = BlankFile THEN [error |-> "ConfigError", entry_points |-> eps]
    ELSE IF config_file = MalformedFile
         THEN [error |-> IF is_json THEN "JSONDecodeError" ELSE "YAMLError",
               entry_points |-> eps]
    ELSE IF config_file.value.kind # "dict"
         THEN [error |-> "ConfigError", entry_points |-> eps]
    ELSE IF "entry_points" \notin DOMAIN config_file.value.items
         THEN [error |-> "ConfigError", entry_points |-> eps]
    ELSE IF config_file.value.items["entry_points"].kind # "dict"
         THEN [error |-> "AttributeError", entry_points |-> eps]
    ELSE load_config_entries(eps, config_file.value.items["entry_points"], 1)

\* The entry point from_defaults_file builds from the mapping it loaded.
defaults_entry_point(defaults, entry_name, context) ==
    [name |-> entry_name,
     short_description |-> "Auto-generated from defaults/main.yml",
     description |-> <<>>,
     author |-> <<>>,
     options |-> [n \in DOMAIN defaults |->
                     infer_argument_spec(n, defaults[n], "", "", FALSE, "1.0.0", context)],
     required_if |-> <<>>, required_one_of |-> <<>>, mutually_exclusive |-> <<>>,
     required_together |-> <<>>]

\* ArgumentSpecsGenerator.from_defaults_file(defaults_file, entry_name)
from_defaults_file(eps, defaults_file, entry_name, context) ==
    IF defaults_file = AbsentFile THEN [error |-> "ConfigError", entry_points |-> eps]
    ELSE IF defaults_file = UnreadableFile THEN [error |-> "OSError", entry_points |-> eps]
    ELSE IF defaults_file = MalformedFile THEN [error |-> "YAMLError", entry_points |-> eps]
    ELSE [error |-> "",
          entry_points |->
             add_entry_point(eps,
                 defaults_entry_point(
                     IF defaults_file = BlankFile \/ defaults_file.value.kind # "dict"
                     THEN EmptyMap ELSE defaults_file.value.items,
                     entry_name, context))]

\* What one entry of a config file can be.
ArgumentConfigs ==
    {yaml_str("int"), yaml_dict(EmptyMap), yaml_dict([k \in {"type"} |-> yaml_str("int")])}

EntryConfigs ==
    {yaml_str("main"), yaml_dict(EmptyMap),
     yaml_dict([k \in {"arguments"} |-> yaml_list(<<>>)])}
    \cup { yaml_dict([k \in {"arguments"} |-> yaml_dict([n \in {"port"} |-> a])]) :
              a \in ArgumentConfigs }

EntryPointsSections ==
    {NoneVal, yaml_list(<<>>), ordered_dict(<<>>, EmptyMap)}
    \cup { ordered_dict(<<"main">>, [k \in {"main"} |-> e]) : e \in EntryConfigs }
    \cup { ordered_dict(<<"install", "main">>,
                        [k \in {"install", "main"} |-> IF k = "main" THEN e ELSE yaml_dict(EmptyMap)]) :
              e \in EntryConfigs }

ConfigFiles ==
    {AbsentFile, UnreadableFile, BlankFile, MalformedFile,
     Document(NoneVal), Document(yaml_list(<<>>)), Document(yaml_str("entry_points")),
     Document(yaml_dict(EmptyMap)),
     Document(yaml_dict([k \in {"roles"} |-> yaml_dict(EmptyMap)]))}
    \cup { Document(yaml_dict([k \in {"entry_points"} |-> s])) : s \in EntryPointsSections }

DefaultsFiles ==
    {AbsentFile, UnreadableFile, BlankFile, MalformedFile,
     Document(yaml_list(<<>>)), Document(yaml_dict(EmptyMap)),
     Document(yaml_dict([k \in {"port"} |-> IntVal])),
     Document(yaml_dict([k \in {"port", "db_host"} |-> IF k = "port" THEN IntVal ELSE StrVal]))}

\* The entry points a generator holds before the call.
HeldEntryPoints ==
    {<<>>, <<config_entry_point("main", yaml_dict(EmptyMap))>>,
     <<defaults_entry_point([k \in {"port"} |-> IntVal], "install", {})>>}

InitConfig ==
    /\ galaxy_version = ""
    /\ \/ \E f \in ConfigFiles, j \in BOOLEAN :
             sample = [method |-> "from_config_file", file |-> f, is_json |-> j]
       \/ \E f \in DefaultsFiles, e \in {"main", "install"} :
             sample = [method |-> "from_defaults_file", file |-> f, entry_name |-> e]
    /\ roles = EmptyMap
    /\ config = NoConfig
    /\ collection_mode = FALSE
    /\ dry_run = FALSE
    /\ entry_points \in HeldEntryPoints
    /\ pc = Idle
    /\ processed_roles = <<>>
    /\ variable_context = {}
    /\ current_role = ""
    /\ stats = InitialStats
    /\ last = NoCall
    /\ edits_left = 0
    /\ calls_left = 1

\* The call: what was held before, the exception and what is held after.
LoadedFrom(method, outcome) ==
    /\ last' = [NoCall EXCEPT !.op = method, !.raised = outcome.error # "",
                              !.result = [error |-> outcome.error, before |-> entry_points]]
    /\ entry_points' = outcome.entry_points
    /\ calls_left' = calls_left - 1
    /\ UNCHANGED <<pc, sample, galaxy_version, roles, collection_mode, dry_run, processed_roles,
                   variable_context, current_role, stats, config, edits_left>>

FromConfigFileAt ==
    /\ calls_left > 0
    /\ sample.method = "from_config_file"
    /\ LoadedFrom("from_config_file",
                  from_config_file_at(entry_points, sample.file, sample.is_json))

FromDefaultsFile ==
    /\ calls_left > 0
    /\ sample.method = "from_defaults_file"
    /\ LoadedFrom("from_defaults_file",
                  from_defaults_file(entry_points, sample.file, sample.entry_name,
                                     variable_context))

NextConfig == FromConfigFileAt \/ FromDefaultsFile

SpecConfig == InitConfig /\ [][NextConfig]_vars

(***************************************************************************)
(* SpecRoot: process_collection on a path that may lack the roles          *)
(* directory, the manifest, or any role.                                   *)
(***************************************************************************)
\* is_collection_root with the manifest made compulsory.
is_collection_root_needing_galaxy(has_roles, has_galaxy, disk) == has_roles /\ has_galaxy

\* ArgumentSpecsGenerator.is_collection_root(path): `disk` is what roles/ holds.
is_collection_root(has_roles, has_galaxy, disk) == has_roles /\ (has_galaxy \/ DOMAIN disk # {})

\* process_collection from its first line: the check of the root, then the
\* search for roles and the loop.
process_collection_at(has_roles, gen, galaxy, disk, ord, cm, dr) ==
    IF ~is_collection_root(has_roles, galaxy # "", disk)
    THEN [gen |-> gen, disk |-> disk, raised |-> TRUE, found |-> <<>>,
          attempted |-> <<>>, failed |-> <<>>]
    ELSE process_collection(gen, galaxy, disk, ord, cm, dr)

ProcessCollectionAt(ord) ==
    /\ calls_left > 0
    /\ AfterCollection(process_collection_at(sample.has_roles, Generator, galaxy_version,
                                             roles, ord, collection_mode, dry_run))
    /\ calls_left' = calls_left - 1
    /\ UNCHANGED <<pc, sample, galaxy_version, collection_mode, dry_run, config, edits_left>>

InitRoot ==
    /\ galaxy_version \in {"", "1.2.0"}
    /\ \E has_roles \in BOOLEAN :
          /\ sample = [method |-> "process_collection", has_roles |-> has_roles]
          /\ roles \in { [r \in S |-> EmptyRole] :
                            S \in IF has_roles THEN SUBSET RoleNames ELSE {{}} }
    /\ config = NoConfig
    /\ collection_mode = TRUE
    /\ dry_run = FALSE
    /\ FreshGenerator
    /\ edits_left = MaxEdits
    /\ calls_left = MaxCalls

NextRoot ==
    \/ \E r \in RoleNames, k \in {"port", NonStrKey} : SetDefault(r, k, IntVal)
    \/ \E r \in RoleNames : AddTaskVariable(r, "main", "db_host")
    \/ \E ord \in {SortedStems} : ProcessCollectionAt(ord)

SpecRoot == InitRoot /\ [][NextRoot]_vars

(***************************************************************************)
(* SpecDry: the four operations that save, with and without dry-run mode,  *)
(* on a collection whose author edits it between the calls.                *)
(***************************************************************************)
\* save_to_file(output_file), for the argument_specs.yml of a role: the
\* document is generated first; in dry-run mode nothing is written.
save_to_file(disk, role_name, eps, dr) ==
    IF dr THEN disk ELSE [disk EXCEPT ![role_name].spec = generate_yaml(eps)]

\* A call that saves the entry points held: generate_yaml may raise before
\* anything is written.
Saved(method, r, disk) ==
    /\ last' = [NoCall EXCEPT !.op = method, !.role = r,
                              !.raised = generate_yaml_raises(entry_points),
                              !.wrote = (disk # roles),
                              !.disk_before = roles]
    /\ roles' = disk
    /\ calls_left' = calls_left - 1
    /\ UNCHANGED <<pc, sample, galaxy_version, collection_mode, dry_run, entry_points,
                   processed_roles, variable_context, current_role, stats, config,
                   edits_left>>

\* YamlOutputMixin.save_to_file(output_file)
SaveToFile(r) ==
    /\ calls_left > 0
    /\ r \in DOMAIN roles
    /\ Saved("save_to_file", r,
             IF generate_yaml_raises(entry_points) THEN roles
             ELSE save_to_file(roles, r, entry_points, dry_run))

\* YamlOutputMixin.save_role_specs(role_path, role_name)
SaveRoleSpecs(r) ==
    /\ calls_left > 0
    /\ r \in DOMAIN roles
    /\ Saved("save_role_specs", r,
             IF generate_yaml_raises(entry_points) THEN roles
             ELSE save_role_specs(roles, r, entry_points, dry_run))

InitDry ==
    /\ galaxy_version = ""
    /\ sample = NoSample
    /\ roles = [r \in RoleNames |-> EmptyRole]
    /\ config = NoConfig
    /\ collection_mode \in BOOLEAN
    /\ dry_run \in BOOLEAN
    /\ FreshGenerator
    /\ edits_left = MaxEdits
    /\ calls_left = MaxCalls

NextDry ==
    \/ \E r \in RoleNames : SetDefault(r, "port", IntVal)
    \/ \E r \in RoleNames : AddTaskVariable(r, "main", "db_host")
    \/ \E r \in RoleNames : HandSetOption(r, "main", "port", HandText, "")
    \/ \E r \in RoleNames : SaveToFile(r)
    \/ \E r \in RoleNames : SaveRoleSpecs(r)
    \/ \E r \in RoleNames : ProcessSingleRole(r, SortedStems)
    \/ ProcessCollection(SortedStems)

SpecDry == InitDry /\ [][NextDry]_vars

(***************************************************************************)
(* SpecEmit: the document generate_yaml emits, as the ordered items of its *)
(* mappings, for entry points whose options were inserted in every order.  *)
(***************************************************************************)
\* The characters of names in the order of their code points.
ascii_order ==
    <<"0", "1", "2", "3", "4", "5", "6", "7", "8", "9",
      "A", "B", "C", "D", "E", "F", "G", "H", "I", "J", "K", "L", "M", "N", "O", "P",
      "Q", "R", "S", "T", "U", "V", "W", "X", "Y", "Z", "_",
      "a", "b", "c", "d", "e", "f", "g", "h", "i", "j", "k", "l", "m", "n", "o", "p",
      "q", "r", "s", "t", "u", "v", "w", "x", "y", "z">>

code_point(c) == CHOOSE i \in 1..Len(ascii_order) : ascii_order[i] = c

\* a < b on Python strings: the first differing character decides, a proper
\* prefix comes first.
RECURSIVE str_less(_, _)
str_less(a, b) ==
    IF b = <<>> THEN FALSE
    ELSE IF a = <<>> THEN TRUE
    ELSE IF Head(a) # Head(b) THEN code_point(Head(a)) < code_point(Head(b))
    ELSE str_less(Tail(a), Tail(b))

key_less(x, y) == str_less(chars(x[1]), chars(y[1]))

\* sorted(mapping.items()), the keys being distinct strings
sorted_items(items) == SortSeq(items, key_less)

\* A representer that sorts the keys whatever it is told.
represent_mapping_sorted(items, sort_keys) == sorted_items(items)

\* yaml.dump(..., sort_keys=False) on one mapping: the items leave in the
\* order of the dict unless sort_keys is set.
represent_mapping(items, sort_keys) == IF sort_keys THEN sorted_items(items) ELSE items

\* The items whose condition holds, in the order of the statements.
emitted(candidates) ==
    LET kept == SelectSeq(candidates, LAMBDA c : c.emit)
    IN [i \in 1..Len(kept) |-> <<kept[i].key, kept[i].value>>]

\* ArgumentSpec.to_dict(), key by key in the order the keys are set.
ArgumentSpec_to_items(arg_spec) ==
    emitted(<< [key |-> "description", emit |-> arg_spec.description # "",
                value |-> arg_spec.description],
               [key |-> "type", emit |-> TRUE, value |-> arg_spec.type],
               [key |-> "required", emit |-> arg_spec.required, value |-> arg_spec.required],
               [key |-> "default", emit |-> arg_spec.default # NoneVal,
                value |-> arg_spec.default],
               [key |-> "choices", emit |-> arg_spec.choices # <<>>,
                value |-> arg_spec.choices],
               [key |-> "elements", emit |-> arg_spec.elements # "",
                value |-> arg_spec.elements],
               [key |-> "options", emit |-> arg_spec.options # <<>>,
                value |-> arg_spec.options],
               [key |-> "version_added", emit |-> arg_spec.version_added # "",
                value |-> arg_spec.version_added] >>)

\* {name: spec.to_dict() for name, spec in sorted(self.options.items())}
options_to_items(options) ==
    LET in_order == sorted_items(options)
    IN [i \in 1..Len(in_order) |->
          <<in_order[i][1], represent_mapping(ArgumentSpec_to_items(in_order[i][2]), FALSE)>>]

\* EntryPointSpec.to_dict(), key by key; `options` holds the items of
\* self.options in insertion order.
EntryPointSpec_to_items(entry_point) ==
    emitted(<< [key |-> "short_description", emit |-> entry_point.short_description # "",
                value |-> entry_point.short_description],
               [key |-> "description", emit |-> entry_point.description # <<>>,
                value |-> entry_point.description],
               [key |-> "author", emit |-> entry_point.author # <<>>,
                value |-> entry_point.author],
               [key |-> "options", emit |-> entry_point.options # <<>>,
                value |-> options_to_items(entry_point.options)],
               [key |-> "required_if", emit |-> entry_point.required_if # <<>>,
                value |-> entry_point.required_if],
               [key |-> "required_one_of", emit |-> entry_point.required_one_of # <<>>,
                value |-> entry_point.required_one_of],
               [key |-> "mutually_exclusive", emit |-> entry_point.mutually_exclusive # <<>>,
                value |-> entry_point.mutually_exclusive],
               [key |-> "required_together", emit |-> entry_point.required_together # <<>>,
                value |-> entry_point.required_together] >>)

\* generate_yaml: the items under argument_specs, entry point by entry point
\* in the order of self.entry_points.
generate_yaml_items(eps) ==
    represent_mapping(
        [i \in 1..Len(eps) |->
            <<eps[i].name, represent_mapping(EntryPointSpec_to_items(eps[i]), FALSE)>>],
        FALSE)

MaxOptions == 3

EmitNames == {"port", "p", "Port", "db_host"}

\* The sequences of at most n distinct members of S.
DistinctSeqs(S, n) ==
    UNION { { s \in [1..k -> S] : \A i, j \in 1..k : i # j => s[i] # s[j] } : k \in 0..n }

\* Defaults that are null, that are falsy, and that are not.
EmitDefaults ==
    {NoneVal, yaml_bool("False"), yaml_int("0"), yaml_str(""), yaml_list(<<>>),
     yaml_int("8080")}

EmitShapes ==
    [description : {"", HandText}, type : {"str"}, required : BOOLEAN,
     default : EmitDefaults, choices : {<<>>, <<"a", "b">>}, elements : {"", "str"},
     options : {<<>>, << <<"b", "int">>, <<"a", "str">> >>},
     version_added : {"", "1.0.0"}]

\* The entry point of the sample under a name: every option of the one shape.
emit_entry_point(name, smp) ==
    [name |-> name,
     short_description |-> smp.short_description,
     description |-> <<>>,
     author |-> <<"Alice">>,
     options |-> [i \in 1..Len(smp.option_order) |->
                    <<smp.option_order[i], smp.shape>>],
     required_if |-> <<>>, required_one_of |-> <<>>, mutually_exclusive |-> <<>>,
     required_together |-> << <<"port", "p">> >>]

InitEmit ==
    /\ galaxy_version = ""
    /\ \E eo \in {<<"main">>, <<"main", "install">>, <<"install", "main">>},
          oo \in DistinctSeqs(EmitNames, MaxOptions), shape \in EmitShapes,
          sd \in {"", HandText} :
          sample = [method |-> "generate_yaml", entry_order |-> eo, option_order |-> oo,
                    shape |-> shape, short_description |-> sd]
    /\ roles = EmptyMap
    /\ config = NoConfig
    /\ collection_mode = FALSE
    /\ dry_run = FALSE
    /\ FreshGenerator
    /\ edits_left = 0
    /\ calls_left = 1

\* YamlOutputMixin.generate_yaml() on the entry points of the sample
GenerateYaml ==
    /\ calls_left > 0
    /\ sample.method = "generate_yaml"
    /\ last' = [NoCall EXCEPT !.op = "generate_yaml",
                   !.result = generate_yaml_items(
                       [i \in 1..Len(sample.entry_order) |->
                           emit_entry_point(sample.entry_order[i], sample)])]
    /\ calls_left' = calls_left - 1
    /\ UNCHANGED <<pc, sample, galaxy_version, roles, collection_mode, dry_run, entry_points,
                   processed_roles, variable_context, current_role, stats, config,
                   edits_left>>

NextEmit == GenerateYaml

SpecEmit == InitEmit /\ [][NextEmit]_vars

(***************************************************************************)
(* SpecSteps: process_collection and process_single_role followed          *)
(* statement by statement.  `pc` holds the position, the locals of the     *)
(* call and the log of what the call has done for the role in hand; the    *)
(* author edits only between calls.                                        *)
(***************************************************************************)
NoAnalysis == [entry_points |-> <<>>]

\* The first statement of process_single_role for a role.
BeginRole(mode, r, queue) ==
    [at |-> "clear_context", mode |-> mode, role |-> r, queue |-> queue,
     analysis |-> NoAnalysis, existing |-> EmptyMap, next |-> 1, log |-> <<>>,
     spec_before |-> IF r \in DOMAIN roles THEN roles[r].spec ELSE NoSpecFile]

StepFrame == UNCHANGED <<sample, galaxy_version, collection_mode, dry_run, config, edits_left>>

\* The two tests that end process_collection with CollectionNotFoundError,
\* on a path that has a roles directory.
collection_not_found(disk) ==
    ~is_collection_root(TRUE, galaxy_version # "", disk) \/ find_roles(disk) = <<>>

\* process_collection up to the loop: the roles found, or CollectionNotFoundError.
StartCollection ==
    /\ pc = Idle
    /\ calls_left > 0
    /\ calls_left' = calls_left - 1
    /\ last' = [NoCall EXCEPT !.op = "process_collection",
                              !.raised = collection_not_found(roles),
                              !.found = find_roles(roles),
                              !.stats_before = stats,
                              !.processed_before = processed_roles,
                              !.disk_before = roles]
    /\ pc' = IF collection_not_found(roles) THEN Idle
             ELSE [BeginRole("collection", "", find_roles(roles)) EXCEPT !.at = "next_role"]
    /\ StepFrame
    /\ UNCHANGED <<roles, entry_points, processed_roles, variable_context, current_role,
                   stats>>

\* `for role_name in roles: self.current_role = role_name`, and after the
\* loop `self.current_role = ""`.
NextRole ==
    /\ pc # Idle
    /\ pc.at = "next_role"
    /\ IF pc.queue = <<>>
       THEN pc' = Idle /\ current_role' = ""
       ELSE /\ pc' = BeginRole("collection", Head(pc.queue), Tail(pc.queue))
            /\ current_role' = Head(pc.queue)
    /\ StepFrame
    /\ UNCHANGED <<roles, entry_points, processed_roles, variable_context, stats, last,
                   calls_left>>

\* process_single_role called by itself: `if not self.current_role: ...`
StartSingleRole(r) ==
    /\ pc = Idle
    /\ calls_left > 0
    /\ calls_left' = calls_left - 1
    /\ current_role' = IF current_role = "" THEN r ELSE current_role
    /\ last' = [NoCall EXCEPT !.op = "process_single_role", !.role = r,
                              !.stats_before = stats,
                              !.processed_before = processed_roles,
                              !.disk_before = roles]
    /\ pc' = BeginRole("single", r, <<>>)
    /\ StepFrame
    /\ UNCHANGED <<roles, entry_points, processed_roles, variable_context, stats>>

\* self.variable_context.clear()
ClearContext ==
    /\ pc # Idle
    /\ pc.at = "clear_context"
    /\ variable_context' = {}
    /\ pc' = [pc EXCEPT !.at = "analyze"]
    /\ StepFrame
    /\ UNCHANGED <<roles, entry_points, processed_roles, current_role, stats, last,
                   calls_left>>

\* analysis = self.analyze_role_structure(role_path): FileNotFoundError when
\* the role directory is missing; the usage hints found are stored on the way.
Analyze ==
    /\ pc # Idle
    /\ pc.at = "analyze"
    /\ IF pc.role \notin DOMAIN roles
       THEN /\ pc' = [pc EXCEPT !.at = "role_failed"]
            /\ UNCHANGED variable_context
       ELSE /\ pc' = [pc EXCEPT !.at = "load_existing",
                                !.analysis = analyze_role_structure(galaxy_version,
                                                                    roles[pc.role]),
                                !.log = Append(@, "analyze")]
            /\ variable_context' =
                  variable_context \cup analyze_variable_usage_context(roles[pc.role])
    /\ StepFrame
    /\ UNCHANGED <<roles, entry_points, processed_roles, current_role, stats, last,
                   calls_left>>

\* existing_specs = self.load_existing_specs(role_path)
LoadExisting ==
    /\ pc # Idle
    /\ pc.at = "load_existing"
    /\ pc' = [pc EXCEPT !.at = "clear_entry_points",
                        !.existing = load_existing_specs(roles[pc.role].spec),
                        !.log = Append(@, "read")]
    /\ StepFrame
    /\ UNCHANGED <<roles, entry_points, processed_roles, variable_context, current_role,
                   stats, last, calls_left>>

\* self.entry_points.clear()
ClearEntryPoints ==
    /\ pc # Idle
    /\ pc.at = "clear_entry_points"
    /\ entry_points' = <<>>
    /\ pc' = [pc EXCEPT !.at = "build"]
    /\ StepFrame
    /\ UNCHANGED <<roles, processed_roles, variable_context, current_role, stats, last,
                   calls_left>>

\* One turn of `for entry_point_name in analysis["entry_points"]:` an entry
\* point is created and added, or its creation raises.
BuildEntryPoint ==
    /\ pc # Idle
    /\ pc.at = "build"
    /\ pc.next <= Len(pc.analysis.entry_points)
    /\ IF create_entry_point_spec_raises(pc.analysis,
              get_existing_entry(pc.existing, pc.analysis.entry_points[pc.next]))
       THEN /\ pc' = [pc EXCEPT !.at = "role_failed"]
            /\ UNCHANGED <<entry_points, stats>>
       ELSE /\ entry_points' =
                  add_entry_point(entry_points,
                      create_entry_point_spec(pc.analysis.entry_points[pc.next], pc.role,
                          pc.analysis,
                          get_existing_entry(pc.existing, pc.analysis.entry_points[pc.next]),
                          SortedStems, variable_context))
            /\ stats' = [stats EXCEPT !.entry_points_created = @ + 1]
            /\ pc' = [pc EXCEPT !.next = @ + 1, !.log = Append(@, "build")]
    /\ StepFrame
    /\ UNCHANGED <<roles, processed_roles, variable_context, current_role, last, calls_left>>

\* The counting of the variables once the loop is over, then
\* `if self.collection_mode: self.save_role_specs(...)`.
CountVariables ==
    /\ pc # Idle
    /\ pc.at = "build"
    /\ pc.next > Len(pc.analysis.entry_points)
    /\ stats' = [stats EXCEPT
                    !.total_variables = @ + total_vars(entry_points),
                    !.new_variables = @ + new_vars(entry_points, pc.analysis.version),
                    !.existing_variables =
                        @ + total_vars(entry_points)
                          - new_vars(entry_points, pc.analysis.version)]
    /\ pc' = [pc EXCEPT !.at = IF collection_mode THEN "save" ELSE "role_done"]
    /\ StepFrame
    /\ UNCHANGED <<roles, entry_points, processed_roles, variable_context, current_role,
                   last, calls_left>>

\* A save that goes to the write without generating the document.
SerializeUnchecked ==
    /\ pc # Idle
    /\ pc.at = "save"
    /\ pc' = [pc EXCEPT !.at = "write"]
    /\ StepFrame
    /\ UNCHANGED <<roles, entry_points, processed_roles, variable_context, current_role,
                   stats, last, calls_left>>

\* save_role_specs up to the write: nothing without entry points, then
\* generate_yaml(), which may raise, then the return of a dry run.
Serialize ==
    /\ pc # Idle
    /\ pc.at = "save"
    /\ pc' = IF entry_points = <<>> THEN [pc EXCEPT !.at = "role_done"]
             ELSE IF generate_yaml_raises(entry_points)
                  THEN [pc EXCEPT !.at = "role_failed"]
             ELSE [pc EXCEPT !.at = IF dry_run THEN "role_done" ELSE "write",
                             !.log = Append(@, "serialize")]
    /\ StepFrame
    /\ UNCHANGED <<roles, entry_points, processed_roles, variable_context, current_role,
                   stats, last, calls_left>>

\* with open(output_file, "w") as f: f.write(yaml_content)
WriteSpecFile ==
    /\ pc # Idle
    /\ pc.at = "write"
    /\ roles' = [roles EXCEPT ![pc.role].spec = generate_yaml(entry_points)]
    /\ pc' = [pc EXCEPT !.at = "role_done", !.log = Append(@, "write")]
    /\ last' = [last EXCEPT !.wrote = TRUE]
    /\ StepFrame
    /\ UNCHANGED <<entry_points, processed_roles, variable_context, current_role, stats,
                   calls_left>>

\* The return of process_single_role: to the caller, or into the loop of
\* process_collection, which records the role.
RoleDone ==
    /\ pc # Idle
    /\ pc.at = "role_done"
    /\ IF pc.mode = "collection"
       THEN /\ processed_roles' = Append(processed_roles, pc.role)
            /\ stats' = [stats EXCEPT !.roles_processed = @ + 1]
            /\ last' = [last EXCEPT !.attempted = Append(@, pc.role)]
            /\ pc' = [pc EXCEPT !.at = "next_role"]
       ELSE /\ pc' = Idle
            /\ UNCHANGED <<processed_roles, stats, last>>
    /\ StepFrame
    /\ UNCHANGED <<roles, entry_points, variable_context, current_role, calls_left>>

\* The exception leaving process_single_role: to the caller, or to the except
\* clause of the loop, which counts the role as failed and goes on.
RoleFailed ==
    /\ pc # Idle
    /\ pc.at = "role_failed"
    /\ IF pc.mode = "collection"
       THEN /\ stats' = [stats EXCEPT !.roles_failed = @ + 1]
            /\ last' = [last EXCEPT !.attempted = Append(@, pc.role),
                                    !.failed = Append(@, pc.role)]
            /\ pc' = [pc EXCEPT !.at = "next_role"]
       ELSE /\ pc' = Idle
            /\ last' = [last EXCEPT !.raised = TRUE]
            /\ UNCHANGED stats
    /\ StepFrame
    /\ UNCHANGED <<roles, entry_points, processed_roles, variable_context, current_role,
                   calls_left>>

InitSteps ==
    /\ galaxy_version = ""
    /\ sample = NoSample
    /\ roles = [r \in RoleNames |-> EmptyRole]
    /\ config = NoConfig
    /\ collection_mode = TRUE
    /\ dry_run = FALSE
    /\ FreshGenerator
    /\ edits_left = MaxEdits
    /\ calls_left = MaxCalls

NextSteps ==
    \/ pc = Idle /\ \E r \in RoleNames, k \in {"port", NonStrKey} : SetDefault(r, k, IntVal)
    \/ pc = Idle /\ \E r \in RoleNames : AddUsageContext(r, "main", "port")
    \/ pc = Idle /\ \E r \in RoleNames : HandSetOption(r, "main", NonStrKey, HandText, "")
    \/ StartCollection
    \/ NextRole
    \/ \E r \in RoleNames \cup {"cache"} : StartSingleRole(r)
    \/ ClearContext
    \/ Analyze
    \/ LoadExisting
    \/ ClearEntryPoints
    \/ BuildEntryPoint
    \/ CountVariables
    \/ Serialize
    \/ WriteSpecFile
    \/ RoleDone
    \/ RoleFailed

SpecSteps == InitSteps /\ [][NextSteps]_vars

(***************************************************************************)
(* SpecVariables: the flat `variables` mapping analyze_role_structure      *)
(* returns for a role whose defaults, vars and task files are edited.      *)
(***************************************************************************)
\* analysis["task_vars"] and analysis["template_vars"]: set() when the
\* analysis is created, and nothing is ever added to either.
task_vars(role) == {}

template_vars(role) == {}

\* One entry of all_variables.
variable_entry(source, required, default) == [type |-> "str", source |-> source, required |-> required, default |-> default]

\* The four loops over defaults, vars, task_vars and template_vars: a name
\* is entered by the first loop that meets it.
all_variables(defaults, vars_data, task_names, template_names) ==
    [n \in DOMAIN defaults \cup DOMAIN vars_data \cup task_names \cup template_names |->
        IF n \in DOMAIN defaults THEN variable_entry("defaults", FALSE, defaults[n])
        ELSE IF n \in DOMAIN vars_data THEN variable_entry("vars", TRUE, NoneVal)
        ELSE IF n \in task_names THEN variable_entry("tasks", TRUE, NoneVal)
        ELSE variable_entry("templates", TRUE, NoneVal)]

\* analysis["variables"]
analysis_variables(analysis, role) ==
    all_variables(analysis.defaults, analysis.vars, task_vars(role), template_vars(role))

\* analyze_role_structure(role_path), with the `variables` it returns.
AnalyzeRoleVariables(r) ==
    /\ calls_left > 0
    /\ r \in DOMAIN roles
    /\ last' = [NoCall EXCEPT !.op = "analyze_role_structure", !.role = r,
                   !.result = [analysis |-> analyze_role_structure(galaxy_version, roles[r]),
                               variables |->
                                  analysis_variables(
                                      analyze_role_structure(galaxy_version, roles[r]),
                                      roles[r])]]
    /\ variable_context' = variable_context \cup analyze_variable_usage_context(roles[r])
    /\ calls_left' = calls_left - 1
    /\ UNCHANGED <<pc, sample, galaxy_version, roles, collection_mode, dry_run, entry_points,
                   processed_roles, current_role, stats, config, edits_left>>

InitVariables ==
    /\ galaxy_version = ""
    /\ sample = NoSample
    /\ roles = [r \in {"web"} |-> EmptyRole]
    /\ config = NoConfig
    /\ collection_mode = FALSE
    /\ dry_run = FALSE
    /\ FreshGenerator
    /\ edits_left = MaxEdits
    /\ calls_left = 1

NextVariables ==
    \/ \E k \in TaskNames : SetDefault("web", k, IntVal)
    \/ \E k \in TaskNames : SetVar("web", k, StrVal)
    \/ \E f \in {"main", "helpers"}, n \in TaskNames : AddTaskVariable("web", f, n)
    \/ AnalyzeRoleVariables("web")

SpecVariables == InitVariables /\ [][NextVariables]_vars

(***************************************************************************)
(* SpecIncludes: a role whose task files include one another from          *)
(* top-level tasks and from inside blocks, some of them not valid YAML,    *)
(* and one run of the generator.                                           *)
(***************************************************************************)
\* A task file stops being valid YAML: its text is as it was.
GarbleTaskFile(r, f) ==
    /\ r \in DOMAIN roles
    /\ f \in DOMAIN roles[r].tasks
    /\ roles[r].tasks[f].fault = "none"
    /\ EditRole(r, [roles[r] EXCEPT !.tasks[f].fault = "invalid_yaml"])

InitIncludes ==
    /\ galaxy_version = ""
    /\ sample = NoSample
    /\ roles = [r \in {"web"} |-> EmptyRole]
    /\ config = NoConfig
    /\ collection_mode = TRUE
    /\ dry_run = FALSE
    /\ FreshGenerator
    /\ edits_left = MaxEdits
    /\ calls_left = 1

NextIncludes ==
    \/ \E f \in Stems : AddTaskFile("web", f)
    \/ \E f \in Stems, g \in Stems : AddInclude("web", f, g)
    \/ \E f \in Stems, g \in Stems : AddNestedInclude("web", f, g)
    \/ \E f \in Stems : GarbleTaskFile("web", f)
    \/ ProcessSingleRole("web", SortedStems)

SpecIncludes == InitIncludes /\ [][NextIncludes]_vars

(***************************************************************************)
(* SpecMeta: the role's meta/main.yml and the text of entry point main in  *)
(* argument_specs.yml are written by hand, between runs of the generator.  *)
(***************************************************************************)
MetaText == "Configures the service"
MetaShort == "Service role"

SetMetaShortDescription(r, s) ==
    /\ r \in DOMAIN roles
    /\ EditRole(r, [roles[r] EXCEPT !.meta.short_description = s])

\* The author writes (or empties) the short description of an entry point.
HandSetShortDescription(r, ep, s) ==
    /\ r \in DOMAIN roles
    /\ EditRole(r, [roles[r] EXCEPT !.spec =
            with_entry_doc(@, [entry_doc(@, ep) EXCEPT
                !.keys = @ \cup {"short_description"}, !.short_description = s])])

NextMeta ==
    \/ SetMetaAuthors("web", <<"Alice">>)
    \/ SetMetaDescription("web", <<MetaText>>)
    \/ SetMetaShortDescription("web", MetaShort)
    \/ AddTaskFile("web", "helpers")
    \/ \E a \in {<<>>, <<HandText>>} : HandSetAuthor("web", "main", a)
    \/ \E d \in {<<>>, <<HandText>>} : HandSetDescription("web", "main", d)
    \/ \E s \in {"", HandText} : HandSetShortDescription("web", "main", s)
    \/ ProcessSingleRole("web", SortedStems)

SpecMeta == Init /\ [][NextMeta]_vars

(***************************************************************************)
(* SpecCalls: one generator on which process_single_role and               *)
(* process_collection are called one after another, for two roles edited   *)
(* between the calls.                                                      *)
(***************************************************************************)
NextCalls ==
    \/ \E r \in RoleNames, k \in {"port", NonStrKey} : SetDefault(r, k, IntVal)
    \/ \E r \in RoleNames : AddTaskVariable(r, "main", "db_host")
    \/ \E r \in RoleNames, v \in {"", HandVersion} :
           HandSetOption(r, "main", "port", HandText, v)
    \/ SetGalaxyVersion("2.0.0")
    \/ \E r \in RoleNames : ProcessSingleRole(r, SortedStems)
    \/ ProcessCollection(SortedStems)

SpecCalls == InitCollection /\ [][NextCalls]_vars

(***************************************************************************)
(* SpecRoundTrip: entry points are serialized by generate_yaml and the     *)
(* document is read back by load_existing_specs.                           *)
(***************************************************************************)
RoundTripShapes ==
    [description : {"", HandText}, version_added : {"", HandVersion},
     required : BOOLEAN, default : {NoneVal, IntVal}]

round_trip_option(name, shape) ==
    [name |-> name, type |-> IF shape.default = NoneVal THEN "str" ELSE "int",
     required |-> shape.required, default |-> shape.default,
     choices |-> <<>>, elements |-> "", options |-> EmptyMap,
     description |-> shape.description, version_added |-> shape.version_added]

\* The entry points of the sample: the first one as the sample says, the
\* others as the generator synthesizes them, without options.
round_trip_entry_point(name, first, smp) ==
    [name |-> name,
     short_description |-> IF first THEN smp.short_description
                           ELSE "Auto-generated specs for web role - " \o name \o " entry point",
     description |-> IF first THEN smp.description ELSE <<>>,
     author |-> IF first THEN smp.author ELSE <<>>,
     options |-> IF first
                 THEN [n \in smp.option_names |-> round_trip_option(n, smp.shape)]
                 ELSE EmptyMap,
     required_if |-> <<>>, required_one_of |-> <<>>, mutually_exclusive |-> <<>>,
     required_together |-> <<>>]

round_trip_entry_points(smp) ==
    [i \in 1..Len(smp.entry_order) |->
        round_trip_entry_point(smp.entry_order[i], i = 1, smp)]

InitRoundTrip ==
    /\ galaxy_version = ""
    /\ \E eo \in {<<>>, <<"main">>, <<"main", "install">>},
          names \in SUBSET TaskNames, shape \in RoundTripShapes,
          sd \in {"", HandText}, d \in {<<>>, <<HandText>>},
          a \in {<<>>, <<"Alice">>} :
          sample = [method |-> "load_existing_specs", entry_order |-> eo,
                    option_names |-> names, shape |-> shape,
                    short_description |-> sd, description |-> d, author |-> a]
    /\ roles = EmptyMap
    /\ config = NoConfig
    /\ collection_mode = FALSE
    /\ dry_run = FALSE
    /\ FreshGenerator
    /\ edits_left = 0
    /\ calls_left = 1

\* generate_yaml() on the entry points of the sample, written to
\* meta/argument_specs.yml, then load_existing_specs on that file
LoadGenerated ==
    /\ calls_left > 0
    /\ sample.method = "load_existing_specs"
    /\ last' = [NoCall EXCEPT !.op = "load_existing_specs",
                   !.result = load_existing_specs(
                                  generate_yaml(round_trip_entry_points(sample)))]
    /\ calls_left' = calls_left - 1
    /\ UNCHANGED <<pc, sample, galaxy_version, roles, collection_mode, dry_run, entry_points,
                   processed_roles, variable_context, current_role, stats, config,
                   edits_left>>

NextRoundTrip == LoadGenerated

SpecRoundTrip == InitRoundTrip /\ [][NextRoundTrip]_vars

(***************************************************************************)
(* Properties.  They are stated on the state a call leaves behind: `last`   *)
(* holds what the call read and returned, the other variables what it      *)
(* wrote.                                                                  *)
(***************************************************************************)

\* process_single_role returned from its last statement.
Regenerated == last.op = "process_single_role" /\ ~last.raised

\* The role directory the last call worked on; a call changes nothing of it
\* but meta/argument_specs.yml.
TheRole == roles[last.role]

\* What the file read by the last call recorded for an entry point.
ExistingOf(entry_point_name) == get_existing_entry(last.existing, entry_point_name)

DetectedVersion == detect_version_info(galaxy_version, TheRole).version

VariablesOf(role, f) == IF f \in DOMAIN role.tasks THEN role.tasks[f].vars ELSE {}

IncludesOf(role, f) ==
    IF f \in DOMAIN role.tasks THEN file_includes_map(role)[f] ELSE {}

\* The files reached from the set S through any number of includes.
RECURSIVE IncludeClosure(_, _)
IncludeClosure(role, S) ==
    LET T == S \cup UNION { IncludesOf(role, f) : f \in S }
    IN IF T = S THEN S ELSE IncludeClosure(role, T)

\* The files an entry point includes, directly or through other files.
ReachableFiles(role, entry_point_name) ==
    IncludeClosure(role, IncludesOf(role, entry_point_name))

ReachableVariables(role, entry_point_name) ==
    UNION { VariablesOf(role, f) : f \in ReachableFiles(role, entry_point_name) }

\* X is a default, a var or a variable of some task file of the role.
PresentInRole(role, x) ==
    \/ x \in DOMAIN role.defaults
    \/ x \in DOMAIN role.vars
    \/ \E f \in DOMAIN role.tasks : x \in role.tasks[f].vars

\* X is a default, a var, a variable of the entry point's own task file or of
\* a file the entry point includes directly or transitively.
DiscoveredBy(role, entry_point_name, x) ==
    \/ x \in DOMAIN role.defaults
    \/ x \in DOMAIN role.vars
    \/ x \in VariablesOf(role, entry_point_name)
    \/ x \in ReachableVariables(role, entry_point_name)

\* The file read recorded X under the entry point with a description and a version.
Recorded(entry_point_name, x) ==
    /\ x \in DOMAIN ExistingOf(entry_point_name).options
    /\ ExistingOf(entry_point_name).options[x].description # ""
    /\ ExistingOf(entry_point_name).options[x].version_added # ""

\* The i-th entry point generated has option X with the recorded description
\* and version.
Preserved(i, x) ==
    /\ x \in DOMAIN entry_points[i].options
    /\ entry_points[i].options[x].description
           = ExistingOf(entry_points[i].name).options[x].description
    /\ entry_points[i].options[x].version_added
           = ExistingOf(entry_points[i].name).options[x].version_added

\* C1: a second run over the unchanged role, reading the file the first run
\* wrote, writes that same file again: the same entry points in the same
\* order with the same options, descriptions and version_added values.
C1_Idempotence ==
    (last.op = "process_single_role" /\ last.repeat /\ last.wrote)
        => roles[last.role].spec = last.disk_before[last.role].spec

C3_NewVariableStamped ==
    Regenerated =>
        \A i \in 1..Len(entry_points) :
            \A n \in DOMAIN entry_points[i].options :
                n \notin DOMAIN ExistingOf(entry_points[i].name).options
                    => entry_points[i].options[n].version_added = DetectedVersion

\* A new variable found only in an included file, stamped with the version
\* of the collection manifest.
C3_Witness ==
    /\ Regenerated
    /\ galaxy_version = "2.0.0"
    /\ \E i \in 1..Len(entry_points) :
          \E n \in ReachableVariables(TheRole, entry_points[i].name) :
              /\ n \notin DOMAIN ExistingOf(entry_points[i].name).options
              /\ n \notin DOMAIN TheRole.defaults \cup DOMAIN TheRole.vars
              /\ n \notin VariablesOf(TheRole, entry_points[i].name)
              /\ n \in DOMAIN entry_points[i].options
              /\ entry_points[i].options[n].version_added = "2.0.0"

\* C4: an option the existing spec lists without a version_added has none
\* after regeneration, whichever pass adds it, run after run, also when the
\* detected version changed since the run before.
C4_Grandfathered ==
    Regenerated =>
        \A i \in 1..Len(entry_points) :
            \A n \in DOMAIN entry_points[i].options :
                (n \in DOMAIN ExistingOf(entry_points[i].name).options
                 /\ ExistingOf(entry_points[i].name).options[n].version_added = "")
                    => entry_points[i].options[n].version_added = ""

\* A second regeneration, under another detected version than the first,
\* that found an option listed without version.
C4_Witness ==
    /\ Regenerated
    /\ last.prev_version # ""
    /\ last.prev_version # last.version
    /\ \E i \in 1..Len(entry_points) :
          \E n \in DOMAIN entry_points[i].options :
              /\ n \in DOMAIN ExistingOf(entry_points[i].name).options
              /\ ExistingOf(entry_points[i].name).options[n].version_added = ""
              /\ entry_points[i].options[n].version_added = ""

\* C5: the entry points generated are main, whether or not a file includes
\* it and whether or not tasks/main.yml exists, and every task file whose
\* stem is not main and is in no include set computed for a task file of the
\* role; no other file is an entry point.
C5_EntryPointClassification ==
    Regenerated =>
        \A f \in Stems :
            (\E i \in 1..Len(entry_points) : entry_points[i].name = f)
                <=> \/ f = "main"
                    \/ /\ f \in DOMAIN TheRole.tasks
                       /\ \A g \in DOMAIN TheRole.tasks : f \notin IncludesOf(TheRole, g)

\* A role without tasks/main.yml in which backup.yml stands alone and
\* helpers.yml is included.
C5_Witness ==
    /\ Regenerated
    /\ "main" \notin DOMAIN TheRole.tasks
    /\ {"helpers", "backup"} \subseteq DOMAIN TheRole.tasks
    /\ \E g \in DOMAIN TheRole.tasks : "helpers" \in IncludesOf(TheRole, g)
    /\ \E i \in 1..Len(entry_points) : entry_points[i].name = "backup"
    /\ \A i \in 1..Len(entry_points) : entry_points[i].name # "helpers"

\* C6: for every include graph, cyclic ones too, the merge of included
\* variables ends, every variable of a file reachable from the entry point
\* is an option, and the merge added each such variable once if no earlier
\* pass had, and not at all otherwise.
C6_CycleTolerance ==
    Regenerated =>
        \A i \in 1..Len(entry_points) :
            LET name == entry_points[i].name
                before == DOMAIN TheRole.defaults \cup DOMAIN TheRole.vars
                              \cup VariablesOf(TheRole, name)
                reached == ReachableVariables(TheRole, name)
            IN /\ ~last.merges[i].exhausted
               /\ reached \subseteq DOMAIN entry_points[i].options
               /\ \A n \in TaskNames :
                     last.merges[i].adds[n] = IF n \in reached \ before THEN 1 ELSE 0

\* An entry point that reaches a cycle of two files, each with a variable
\* of its own that the merge added.
C6_Witness ==
    /\ Regenerated
    /\ \E i \in 1..Len(entry_points) :
          \E f \in ReachableFiles(TheRole, entry_points[i].name) :
              \E g \in ReachableFiles(TheRole, entry_points[i].name) :
                  /\ f # g
                  /\ f # entry_points[i].name
                  /\ g # entry_points[i].name
                  /\ g \in IncludesOf(TheRole, f)
                  /\ f \in IncludesOf(TheRole, g)
                  /\ \A n \in TaskNames : last.merges[i].adds[n] = 1

\* C7: the passes run in the order defaults, vars, own task file, included
\* files, and an option added by one pass is left as it is by the later
\* ones: type, default, required, description and version_added.
C7_FirstWriterWins ==
    Regenerated =>
        \A i \in 1..Len(entry_points) :
            LET name == entry_points[i].name
                analysis == analyze_role_structure(galaxy_version, TheRole)
                d == options_after_defaults(analysis, ExistingOf(name), variable_context)
                v == options_after_vars(analysis, ExistingOf(name), variable_context)
                o == options_after_own(name, analysis, ExistingOf(name), variable_context)
                final == entry_points[i].options
            IN /\ DOMAIN d = DOMAIN TheRole.defaults
               /\ DOMAIN v = DOMAIN d \cup DOMAIN TheRole.vars
               /\ DOMAIN o = DOMAIN v \cup VariablesOf(TheRole, name)
               /\ DOMAIN final = DOMAIN o \cup ReachableVariables(TheRole, name)
               /\ \A n \in DOMAIN d : v[n] = d[n] /\ d[n].default = TheRole.defaults[n]
               /\ \A n \in DOMAIN v : o[n] = v[n]
               /\ \A n \in DOMAIN o : final[n] = o[n]

\* A name that is a default, a var and a variable of the entry point's own
\* task file: the option is the one the defaults pass made.
C7_Witness ==
    /\ Regenerated
    /\ \E i \in 1..Len(entry_points) :
          \E n \in DOMAIN TheRole.defaults :
              /\ n \in DOMAIN TheRole.vars
              /\ n \in VariablesOf(TheRole, entry_points[i].name)
              /\ TheRole.vars[n] # TheRole.defaults[n]
              /\ entry_points[i].options[n].default = TheRole.defaults[n]
              /\ entry_points[i].options[n].type = "int"

\* C8: a variable of an entry point's own task file or of a file it
\* includes is an option that is optional if and only if its name is a key
\* of defaults or vars; with no default anywhere it is required and the file
\* written gives it no default.
C8_RequiredIffNoDefault ==
    Regenerated =>
        \A i \in 1..Len(entry_points) :
            \A n \in VariablesOf(TheRole, entry_points[i].name)
                        \cup ReachableVariables(TheRole, entry_points[i].name) :
                /\ n \in DOMAIN entry_points[i].options
                /\ entry_points[i].options[n].required
                       = (n \notin DOMAIN TheRole.defaults \cup DOMAIN TheRole.vars)
                /\ (n \notin DOMAIN TheRole.defaults \cup DOMAIN TheRole.vars)
                       => /\ entry_points[i].options[n].default = NoneVal
                          /\ last.wrote =>
                                "default" \notin TheRole.spec.eps[i].options[n].keys

\* A variable of tasks/main.yml with no default anywhere: required, and
\* written without a default.
C8_Witness ==
    /\ Regenerated
    /\ last.wrote
    /\ \E i \in 1..Len(entry_points) :
          \E n \in VariablesOf(TheRole, entry_points[i].name) :
              /\ n \notin DOMAIN TheRole.defaults \cup DOMAIN TheRole.vars
              /\ entry_points[i].options[n].required
              /\ "required" \in TheRole.spec.eps[i].options[n].keys
              /\ "default" \notin TheRole.spec.eps[i].options[n].keys

\* Processing the role alone, as the collection was when the call began, raises.
RoleRaises(r) ==
    process_single_role(Generator, galaxy_version, last.disk_before, r, SortedStems,
                        collection_mode, dry_run).raised

RoleSucceeds(r) == ~RoleRaises(r)

\* C9: process_collection goes through every role found, in order; a role
\* whose processing raises is counted in roles_failed and not appended to
\* processed_roles, and the roles after it are processed all the same; the
\* increases of roles_processed and roles_failed sum to the number of roles
\* found and processed_roles grows by exactly the roles that succeeded.
C9_PartialFailureIsolation ==
    (last.op = "process_collection" /\ ~last.raised) =>
        /\ last.found = find_roles(last.disk_before)
        /\ last.attempted = last.found
        /\ last.failed = SelectSeq(last.found, RoleRaises)
        /\ processed_roles = last.processed_before \o SelectSeq(last.found, RoleSucceeds)
        /\ stats.roles_failed = last.stats_before.roles_failed + Len(last.failed)
        /\ (stats.roles_processed - last.stats_before.roles_processed)
             + (stats.roles_failed - last.stats_before.roles_failed) = Len(last.found)

\* A collection of two roles in which the first fails and the second is
\* processed and recorded.
C9_Witness ==
    /\ last.op = "process_collection"
    /\ last.found = <<"db", "web">>
    /\ last.failed = <<"db">>
    /\ processed_roles = last.processed_before \o <<"web">>
    /\ roles["web"].spec.exists

\* The parameter names a required_if condition refers to: its first element
\* and the members of its third.
ReferencedByRequiredIf(condition) ==
    (IF Len(condition) >= 1 THEN {condition[1]} ELSE {})
    \cup (IF Len(condition) >= 3
          THEN { condition[3].items[k] : k \in 1..Len(condition[3].items) }
          ELSE {})

Members(condition) == { condition[k] : k \in 1..Len(condition) }

UnknownType(entry_point) ==
    \E n \in DOMAIN entry_point.options :
        entry_point.options[n].type \notin
            {"str", "int", "float", "bool", "list", "dict", "path", "raw"}

DanglingReference(entry_point) ==
    \/ \E k \in 1..Len(entry_point.required_if) :
          ~(ReferencedByRequiredIf(entry_point.required_if[k])
                \subseteq DOMAIN entry_point.options)
    \/ \E k \in 1..Len(entry_point.required_one_of) :
          ~(Members(entry_point.required_one_of[k]) \subseteq DOMAIN entry_point.options)
    \/ \E k \in 1..Len(entry_point.mutually_exclusive) :
          ~(Members(entry_point.mutually_exclusive[k]) \subseteq DOMAIN entry_point.options)
    \/ \E k \in 1..Len(entry_point.required_together) :
          ~(Members(entry_point.required_together[k]) \subseteq DOMAIN entry_point.options)

\* C10: validate_specs returns false whenever some option has a type that is
\* not one of the eight kinds or some parameter named in required_if,
\* required_one_of, mutually_exclusive or required_together is not an option
\* of the same entry point, and true when neither occurs in any entry point.
C10_ValidateSpecs ==
    last.op = "validate_specs" =>
        (last.result <=> ~\E i \in 1..Len(entry_points) :
                            UnknownType(entry_points[i]) \/ DanglingReference(entry_points[i]))

(***************************************************************************)
(* Version detection.                                                      *)
(***************************************************************************)
\* The manifest the walk finds: the galaxy.yml of the nearest of the three
\* ancestor directories that has one.
FoundManifests ==
    { i \in 1..3 : /\ sample.ancestors[i].state # "absent"
                   /\ \A j \in 1..3 : j < i => sample.ancestors[j].state = "absent" }

\* A file declares `key` when it parses to a mapping that has the key.
Declares(file, key) ==
    /\ file.state = "document"
    /\ file.value.kind = "dict"
    /\ key \in DOMAIN file.value.items

ManifestDeclaresVersion ==
    \E i \in FoundManifests : Declares(sample.ancestors[i], "version")

\* The values the role's metadata gives for version, galaxy_info.version and
\* galaxy_info.role_version, in that order, those that are present and not
\* empty (not null, not "", not zero).
MetaVersionCandidates ==
    LET meta == sample.meta_file
        top == IF Declares(meta, "version") THEN <<meta.value.items["version"]>> ELSE <<>>
        gi == IF Declares(meta, "galaxy_info") THEN meta.value.items["galaxy_info"]
              ELSE NoneVal
        inner(f) == IF gi.kind = "dict" /\ f \in DOMAIN gi.items THEN <<gi.items[f]>>
                    ELSE <<>>
    IN  SelectSeq(top \o inner("version") \o inner("role_version"),
                  LAMBDA v : v \notin {NoneVal, yaml_str(""), yaml_int("0")})

\* C11: a version declared by the collection manifest found in the three
\* ancestor directories is used, with source collection, whatever the role's
\* metadata says; else the first non-empty of version, galaxy_info.version
\* and galaxy_info.role_version of the role's metadata, as a string, with
\* source role; else 1.0.0 with source default.
C11_VersionPrecedence ==
    last.op = "_detect_version_info" =>
        IF ManifestDeclaresVersion
        THEN \E i \in FoundManifests :
                last.result = [version |-> sample.ancestors[i].value.items["version"].repr,
                               is_collection |-> TRUE, source |-> "collection"]
        ELSE IF MetaVersionCandidates # <<>>
             THEN last.result = [version |-> Head(MetaVersionCandidates).repr,
                                 is_collection |-> FALSE, source |-> "role"]
             ELSE last.result = [version |-> "1.0.0", is_collection |-> FALSE,
                                 source |-> "default"]

\* The manifest declares a version and so does the role's metadata: the
\* manifest's version is the one detected.
C11_Witness ==
    /\ last.op = "_detect_version_info"
    /\ ManifestDeclaresVersion
    /\ MetaVersionCandidates # <<>>
    /\ last.result.source = "collection"

(***************************************************************************)
(* Type inference.                                                         *)
(***************************************************************************)
\* The type an element of a list holds: one of the five the vote knows.
HeldType(elem) ==
    IF elem.kind \in {"bool", "int", "float", "dict"} THEN elem.kind ELSE "str"

Holders(elems, t) == { i \in 1..Len(elems) : HeldType(elems[i]) = t }

\* t is held by the most elements; among the types held equally often it is
\* the one seen first.
MajorityType(elems, t) ==
    /\ Holders(elems, t) # {}
    /\ \A u \in {"bool", "int", "float", "dict", "str"} :
          \/ Cardinality(Holders(elems, u)) < Cardinality(Holders(elems, t))
          \/ /\ Cardinality(Holders(elems, u)) = Cardinality(Holders(elems, t))
             /\ \A i \in Holders(elems, u) : \E j \in Holders(elems, t) : j <= i

NameHasPathKeyword ==
    \E k \in {"path", "dir", "directory", "file", "location"} :
        contains(lower(chars(sample.name)), chars(k))

ValueLooksLikePath ==
    \/ startswith(chars(sample.value.repr), <<"/">>)
    \/ contains(chars(sample.value.repr), <<"\\">>)
    \/ \E d \in {"home", "tmp", "var", "etc", "usr"} :
          contains(chars(sample.value.repr), chars(d))

\* C12: the type is given by the first rule that matches, in the order
\* boolean, integer, float, list, mapping, string, so a boolean is typed bool
\* and never int; a list gets as element type the type most of its elements
\* hold, the type seen first on a tie, str when it is empty; a string is
\* typed path only when its name has a path keyword and its value looks like
\* a path, else str.
C12_TypeInference ==
    last.op = "_infer_argument_spec" =>
        LET value == sample.value
        IN  CASE value.kind \in {"bool", "int", "float", "dict"} ->
                    last.result.type = value.kind
              [] value.kind = "list" ->
                    /\ last.result.type = "list"
                    /\ IF value.elems = <<>> THEN last.result.elements = "str"
                       ELSE MajorityType(value.elems, last.result.elements)
              [] value.kind = "str" ->
                    last.result.type =
                        IF NameHasPathKeyword /\ ValueLooksLikePath THEN "path" ELSE "str"
              [] OTHER -> last.result.type = "str"

(***************************************************************************)
(* Name filtering.                                                         *)
(***************************************************************************)
Candidate == sample.var_name

HasBuiltinPrefix ==
    \E p \in BUILTIN_PREFIXES :
        /\ Len(chars(p)) <= Len(Candidate)
        /\ \A i \in 1..Len(chars(p)) : Candidate[i] = chars(p)[i]

HasChar(c) == \E i \in 1..Len(Candidate) : Candidate[i] = c

StartsWith(c) == Candidate # <<>> /\ Candidate[1] = c

WordChars == ascii_lowercase \cup ascii_uppercase \cup digits \cup {"_"}

\* Letters, digits and underscores only.
IsWord == \A i \in 1..Len(Candidate) : Candidate[i] \in WordChars

\* The exclusion rules a name of letters, digits and underscores can match:
\* a built-in prefix, a non-variable keyword (in any case), digits only or a
\* leading digit (no identifier), a leading underscore, fewer than 2
\* characters.
MatchesExclusionRule ==
    \/ HasBuiltinPrefix
    \/ \E w \in NON_VARIABLES : lower(Candidate) = chars(w)
    \/ \E d \in digits : StartsWith(d)
    \/ StartsWith("_")
    \/ Len(Candidate) < 2

\* C13: the validity predicate is false for every candidate that starts with
\* a built-in prefix, contains a dot, starts with an underscore or has fewer
\* than 2 characters, and true for every name of letters, digits and
\* underscores, of length at least 2, that matches no exclusion rule.
C13_NameFilter ==
    (last.op = "_is_valid_role_variable" /\ sample.is_str) =>
        /\ (HasBuiltinPrefix \/ HasChar(".") \/ StartsWith("_") \/ Len(Candidate) < 2)
              => last.result = FALSE
        /\ (IsWord /\ Len(Candidate) >= 2 /\ ~MatchesExclusionRule)
              => last.result = TRUE

\* The filter was asked about db_host, a name that matches no rule, and
\* accepted it.
C13_Witness ==
    /\ last.op = "_is_valid_role_variable"
    /\ sample.is_str
    /\ Candidate = chars("db_host")
    /\ IsWord /\ ~MatchesExclusionRule
    /\ last.result = TRUE

(***************************************************************************)
(* File-level fault tolerance.                                             *)
(***************************************************************************)
Analysed == roles[last.role]

\* The same role with every file loading.
Healthy ==
    [Analysed EXCEPT !.faults = EmptyMap, !.spec.fault = "none",
                     !.tasks = [f \in DOMAIN Analysed.tasks |->
                                   [Analysed.tasks[f] EXCEPT !.fault = "none"]]]

HealthyAnalysis == analyze_role_structure(galaxy_version, Healthy)

\* What the version is when the broken ones among the manifest and the
\* metadata declare none.
VersionWithoutBroken ==
    IF galaxy_version # "" /\ ~broken(Analysed, "galaxy.yml") THEN galaxy_version
    ELSE IF Analysed.meta.version # "" /\ ~broken(Analysed, "meta")
         THEN Analysed.meta.version
         ELSE "1.0.0"

\* defaults, vars, metadata and the manifest: a broken file gives the empty
\* result, the others give what they hold.
MappingFilesTolerated ==
    /\ last.result.defaults =
          IF broken(Analysed, "defaults") THEN EmptyMap ELSE HealthyAnalysis.defaults
    /\ last.result.vars =
          IF broken(Analysed, "vars") THEN EmptyMap ELSE HealthyAnalysis.vars
    /\ last.result.authors =
          IF broken(Analysed, "meta") THEN <<>> ELSE HealthyAnalysis.authors
    /\ last.result.meta_description =
          IF broken(Analysed, "meta") THEN <<>> ELSE HealthyAnalysis.meta_description
    /\ last.result.version = VersionWithoutBroken
    /\ last.result.all_task_files = DOMAIN Analysed.tasks

\* C14 as stated: no failure of a single file leaves role analysis; every
\* failing file, a task file included, contributes an empty result (empty
\* mapping, no variables, no includes, no existing specs) and the other files
\* are still processed.
C14_FailingFileContributesNothing ==
    /\ last.op = "analyze_role_structure" =>
          /\ ~last.raised
          /\ MappingFilesTolerated
          /\ \A f \in DOMAIN Analysed.tasks :
                IF Analysed.tasks[f].fault # "none"
                THEN /\ last.result.file_variables[f] = {}
                     /\ last.result.file_includes_map[f] = {}
                ELSE /\ last.result.file_variables[f] = HealthyAnalysis.file_variables[f]
                     /\ last.result.file_includes_map[f]
                           = HealthyAnalysis.file_includes_map[f]
    /\ last.op = "load_existing_specs" =>
          /\ ~last.raised
          /\ last.result = IF Analysed.spec.fault # "none" THEN EmptyMap
                           ELSE load_existing_specs(Healthy.spec)

\* C14, amended: as above, but a task file contributes nothing only when it
\* cannot be read or decoded; a task file that is read but is not valid YAML
\* still contributes the variables its text mentions and the includes the
\* regex scan of its text finds.
C14_FaultTolerance ==
    /\ last.op = "analyze_role_structure" =>
          /\ ~last.raised
          /\ MappingFilesTolerated
          /\ \A f \in DOMAIN Analysed.tasks :
                CASE Analysed.tasks[f].fault = "unreadable" ->
                        /\ last.result.file_variables[f] = {}
                        /\ last.result.file_includes_map[f] = {}
                  [] Analysed.tasks[f].fault = "invalid_yaml" ->
                        /\ last.result.file_variables[f] = Analysed.tasks[f].vars
                        /\ last.result.file_includes_map[f] =
                              (Analysed.tasks[f].includes \cup Analysed.tasks[f].nested)
                                 \ {f}
                  [] OTHER ->
                        /\ last.result.file_variables[f] = HealthyAnalysis.file_variables[f]
                        /\ last.result.file_includes_map[f]
                              = HealthyAnalysis.file_includes_map[f]
    /\ last.op = "load_existing_specs" =>
          /\ ~last.raised
          /\ last.result = IF Analysed.spec.fault # "none" THEN EmptyMap
                           ELSE load_existing_specs(Healthy.spec)

\* A role was analysed while its defaults could not be loaded, one of its
\* task files could not be read and the other was not valid YAML: the first
\* two gave nothing, the third gave the variables of its text, and
\* vars/main.yml was still read.
C14_Witness ==
    /\ last.op = "analyze_role_structure"
    /\ broken(Analysed, "defaults")
    /\ Analysed.defaults # EmptyMap
    /\ last.result.defaults = EmptyMap
    /\ Analysed.tasks["main"].fault = "unreadable"
    /\ Analysed.tasks["main"].vars # {}
    /\ last.result.file_variables["main"] = {}
    /\ Analysed.tasks["helpers"].fault = "invalid_yaml"
    /\ last.result.file_variables["helpers"] # {}
    /\ last.result.vars # EmptyMap

(***************************************************************************)
(* Config errors.                                                          *)
(***************************************************************************)
\* The file as the claim sorts it.
ConfigFileIsMissing == sample.file = AbsentFile
ConfigFileIsEmpty == sample.file = BlankFile
ConfigFileIsMalformed == sample.file = MalformedFile
ConfigFileIsNotAMapping == sample.file.state = "document" /\ sample.file.value.kind # "dict"
ConfigFileLacksEntryPoints ==
    /\ sample.file.state = "document"
    /\ sample.file.value.kind = "dict"
    /\ "entry_points" \notin DOMAIN sample.file.value.items

\* C15: from_config_file signals ConfigError whenever the config file is
\* missing, empty, malformed, not a mapping or lacks entry_points, and
\* from_defaults_file signals ConfigError when the defaults file is missing;
\* in every such case no entry point has been added and entry_points is
\* unchanged.
C15_ConfigErrors ==
    /\ (/\ last.op = "from_config_file"
        /\ \/ ConfigFileIsMissing
           \/ ConfigFileIsEmpty
           \/ ConfigFileIsMalformed
           \/ ConfigFileIsNotAMapping
           \/ ConfigFileLacksEntryPoints)
          => /\ last.result.error = "ConfigError"
             /\ entry_points = last.result.before
    /\ (last.op = "from_defaults_file" /\ sample.file = AbsentFile)
          => /\ last.result.error = "ConfigError"
             /\ entry_points = last.result.before

(***************************************************************************)
(* The collection that is not there.                                       *)
(***************************************************************************)
NoRolesDirectory == ~sample.has_roles

\* None of the directories under roles/ holds tasks/, defaults/ or meta/.
NoRoleFound == \A r \in DOMAIN last.disk_before : ~is_role_dir(last.disk_before[r])

\* C16: process_collection raises CollectionNotFoundError exactly when the
\* path has no roles directory or no role is found under it; then no role is
\* processed, nothing is written, and stats and processed_roles are
\* unchanged; in every other case it returns without raising.
C16_CollectionNotFound ==
    last.op = "process_collection" =>
        /\ last.raised <=> (NoRolesDirectory \/ NoRoleFound)
        /\ last.raised =>
              /\ last.attempted = <<>>
              /\ roles = last.disk_before
              /\ stats = last.stats_before
              /\ processed_roles = last.processed_before

\* Raised for directories under roles/ of which none is a role, with roles
\* processed by a call before; and returned from a collection without
\* manifest whose only role failed.
C16_Witness ==
    /\ last.op = "process_collection"
    /\ last.raised
    /\ ~NoRolesDirectory
    /\ DOMAIN last.disk_before # {}
    /\ galaxy_version = ""

C16_WitnessReturns ==
    /\ last.op = "process_collection"
    /\ ~last.raised
    /\ galaxy_version = ""
    /\ last.failed = last.found
    /\ last.found # <<>>

(***************************************************************************)
(* Dry run.                                                                *)
(***************************************************************************)
SavingOperations == {"save_to_file", "save_role_specs", "process_single_role", "process_collection"}

\* The step is a call of the generator, not an edit of the author.
GeneratorCalled == calls_left' < calls_left /\ last'.op \in SavingOperations

\* C17: in dry-run mode no call of save_to_file, save_role_specs,
\* process_single_role or process_collection, in any sequence, creates,
\* truncates or modifies a file: the files on disk after the call are those
\* before it, with the same contents.
C17_DryRunWritesNothing == [][(dry_run /\ GeneratorCalled) => roles' = roles]_vars

\* A dry run processed a collection whose roles had no argument_specs.yml,
\* built entry points for them, and then save_to_file was called with these
\* entry points in hand: still no role has the file.
C17_Witness ==
    /\ dry_run
    /\ last.op = "save_to_file"
    /\ ~last.raised
    /\ entry_points # <<>>
    /\ processed_roles # <<>>
    /\ \A r \in DOMAIN roles : ~roles[r].spec.exists

(***************************************************************************)
(* Serialization.                                                          *)
(***************************************************************************)
KeysOf(items) == [i \in 1..Len(items) |-> items[i][1]]

HasKey(items, key) == \E i \in 1..Len(items) : items[i][1] = key

ValueOf(items, key) == items[CHOOSE i \in 1..Len(items) : items[i][1] = key][2]

\* The keys come in the order of `reference`, which lists each once.
InOrderOf(keys, reference) ==
    /\ \A i \in 1..Len(keys) : \E k \in 1..Len(reference) : reference[k] = keys[i]
    /\ \A i, j \in 1..Len(keys) :
          i < j => (CHOOSE k \in 1..Len(reference) : reference[k] = keys[i])
                     < (CHOOSE k \in 1..Len(reference) : reference[k] = keys[j])

EntryKeyOrder ==
    <<"short_description", "description", "author", "options", "required_if",
      "required_one_of", "mutually_exclusive", "required_together">>

OptionKeyOrder ==
    <<"description", "type", "required", "default", "choices", "elements", "options",
      "version_added">>

\* The options of an emitted entry point, none when the key is absent.
EmittedOptions(entry_items) ==
    IF HasKey(entry_items, "options") THEN ValueOf(entry_items, "options") ELSE <<>>

\* One emitted option against the ArgumentSpec it came from.
OptionEmittedAsClaimed(items, arg_spec) ==
    /\ InOrderOf(KeysOf(items), OptionKeyOrder)
    /\ HasKey(items, "required") => arg_spec.required
    /\ arg_spec.default # NoneVal =>
          HasKey(items, "default") /\ ValueOf(items, "default") = arg_spec.default
    /\ HasKey(items, "choices") => arg_spec.choices # <<>>
    /\ HasKey(items, "elements") => arg_spec.elements # ""
    /\ HasKey(items, "options") =>
          arg_spec.options # <<>> /\ ValueOf(items, "options") = arg_spec.options
    /\ HasKey(items, "version_added") => arg_spec.version_added # ""

\* C18: in the emitted document the options of every entry point appear in
\* alphabetical order of name (the order of Python strings) and no other key
\* is reordered: entry points keep their insertion order, the keys of an
\* entry point and of an option the order in which to_dict sets them, a
\* nested mapping its own order; an option emits required only when it is
\* true, default whenever the default is not null (false, 0 and empty values
\* included), and choices, elements, options and version_added only when
\* present.
C18_Serialization ==
    last.op = "generate_yaml" =>
        /\ KeysOf(last.result) = sample.entry_order
        /\ \A e \in 1..Len(last.result) :
              /\ InOrderOf(KeysOf(last.result[e][2]), EntryKeyOrder)
              /\ Len(EmittedOptions(last.result[e][2])) = Len(sample.option_order)
              /\ \A n \in 1..Len(sample.option_order) :
                    HasKey(EmittedOptions(last.result[e][2]), sample.option_order[n])
              /\ \A i, j \in 1..Len(EmittedOptions(last.result[e][2])) :
                    i < j => str_less(chars(EmittedOptions(last.result[e][2])[i][1]),
                                      chars(EmittedOptions(last.result[e][2])[j][1]))
              /\ \A i \in 1..Len(EmittedOptions(last.result[e][2])) :
                    OptionEmittedAsClaimed(EmittedOptions(last.result[e][2])[i][2],
                                           sample.shape)

\* Two entry points inserted install first, options inserted port, db_host,
\* Port, with the default false and nothing optional set: install leaves
\* first, the options leave as Port, db_host, port, each with type and
\* default and without required.
C18_Witness ==
    /\ last.op = "generate_yaml"
    /\ sample.entry_order = <<"install", "main">>
    /\ sample.option_order = <<"port", "db_host", "Port">>
    /\ sample.shape.default = yaml_bool("False")
    /\ ~sample.shape.required
    /\ sample.shape.description = ""
    /\ sample.shape.choices = <<>>
    /\ sample.shape.elements = ""
    /\ sample.shape.options = <<>>
    /\ sample.shape.version_added = ""
    /\ KeysOf(last.result) = <<"install", "main">>
    /\ KeysOf(EmittedOptions(last.result[1][2])) = <<"Port", "db_host", "port">>
    /\ KeysOf(EmittedOptions(last.result[1][2])[1][2]) = <<"type", "default">>

(***************************************************************************)
(* State ownership across roles.                                           *)
(***************************************************************************)
\* From the start of the analysis of a role until its spec is saved.
RoleUnderWay ==
    /\ pc # Idle
    /\ pc.at \in {"analyze", "load_existing", "clear_entry_points", "build", "save",
                  "write", "role_done"}
    /\ pc.role \in DOMAIN roles

\* What the files of the role in hand give: its structure, the spec file it
\* had when the call reached it, and the entry points built from the two.
OwnAnalysis == analyze_role_structure(galaxy_version, roles[pc.role])

OwnExisting == load_existing_specs(pc.spec_before)

OwnEntryPoint(i) ==
    create_entry_point_spec(OwnAnalysis.entry_points[i], pc.role, OwnAnalysis,
        get_existing_entry(OwnExisting, OwnAnalysis.entry_points[i]),
        SortedStems, analyze_variable_usage_context(roles[pc.role]))

\* Every entry point held was built for the role in hand.
HoldsOnlyOwnEntryPoints ==
    /\ Len(entry_points) <= Len(OwnAnalysis.entry_points)
    /\ \A i \in 1..Len(entry_points) : entry_points[i] = OwnEntryPoint(i)

\* Every usage hint held was found in the task files of the role in hand.
HoldsOnlyOwnContext ==
    variable_context \subseteq analyze_variable_usage_context(roles[pc.role])

\* C19: when one generator processes several roles in sequence, entry_points
\* and variable_context are both cleared before each role begins: from the
\* start of a role's analysis until its spec is saved they hold nothing
\* derived from a role processed before, also when the previous or the
\* current role fails.
C19_StateOwnership ==
    RoleUnderWay => (HoldsOnlyOwnEntryPoints /\ HoldsOnlyOwnContext)

(***************************************************************************)
(* Write ordering for one role.                                            *)
(***************************************************************************)
\* A role is in hand: pc.log lists, in order, what the call has done for it.
RoleInHand == pc # Idle /\ pc.role \in DOMAIN roles

\* The positions of the log at which the event stands.
Positions(event) == { i \in 1..Len(pc.log) : pc.log[i] = event }

Precedes(first, second) ==
    \A j \in Positions(second) : \E i \in Positions(first) : i < j

\* C20: for one role the existing spec file is read before it is
\* overwritten, the structure analysis completes before any entry point is
\* built, all entry points are built before serialization, and
\* argument_specs.yml is written only after all of that succeeded; a role
\* whose processing fails leaves its previous spec file untouched.
C20_WriteOrdering ==
    RoleInHand =>
        /\ Precedes("read", "write")
        /\ Precedes("analyze", "build")
        /\ \A s \in Positions("serialize") :
              /\ Cardinality({ b \in Positions("build") : b < s })
                    = Len(pc.analysis.entry_points)
              /\ \A b \in Positions("build") : b < s
        /\ \A w \in Positions("write") :
              /\ w = Len(pc.log)
              /\ w > 1 /\ pc.log[w - 1] = "serialize"
              /\ pc.at # "role_failed"
        /\ Positions("write") = {} => roles[pc.role].spec = pc.spec_before
        /\ pc.at = "role_failed" => roles[pc.role].spec = pc.spec_before

\* A role that had a spec file and a default is processed to the end: the
\* file was read, the analysis and the building came before the
\* serialization, and the file written last differs from the one read.
C20_Witness ==
    /\ RoleInHand
    /\ pc.at = "role_done"
    /\ pc.spec_before.exists
    /\ pc.log = <<"analyze", "read", "build", "serialize", "write">>
    /\ roles[pc.role].spec # pc.spec_before

\* A role that had a spec file fails while its entry point is built: the
\* file is as it was.
C20_WitnessFailure ==
    /\ RoleInHand
    /\ pc.at = "role_failed"
    /\ pc.spec_before.exists
    /\ pc.log = <<"analyze", "read">>

(***************************************************************************)
(* The flat variables mapping.                                             *)
(***************************************************************************)
AnalysedRole == roles[last.role]

\* The names the task files of the role were found to use.
DiscoveredInTasks ==
    UNION { last.result.analysis.file_variables[f] :
               f \in DOMAIN last.result.analysis.file_variables }

\* C21: the flat variables mapping layers defaults entries (optional, with
\* the default), then vars entries (required), then task-variable entries
\* (required), then template-variable entries (required), first writer
\* winning; hence every name of defaults or vars or discovered in a task file
\* is a key, and a name discovered only in a task file is required.
C21_FlatVariables ==
    last.op = "analyze_role_structure" =>
        /\ \A n \in DOMAIN AnalysedRole.defaults :
              /\ n \in DOMAIN last.result.variables
              /\ ~last.result.variables[n].required
              /\ last.result.variables[n].default = AnalysedRole.defaults[n]
        /\ \A n \in DOMAIN AnalysedRole.vars \ DOMAIN AnalysedRole.defaults :
              /\ n \in DOMAIN last.result.variables
              /\ last.result.variables[n].required
        /\ \A n \in DiscoveredInTasks :
              /\ n \in DOMAIN last.result.variables
              /\ n \notin DOMAIN AnalysedRole.defaults \cup DOMAIN AnalysedRole.vars
                    => last.result.variables[n].required

(***************************************************************************)
(* Inclusion and standalone task files.                                    *)
(***************************************************************************)
\* The files the include directives written in a task file name, in its
\* top-level tasks and inside its block/rescue/always sections.
Directives(role, g) == role.tasks[g].includes \cup role.tasks[g].nested

\* Another task file of the role has a directive that names f.
IncludedByAnother(role, f) ==
    \E g \in DOMAIN role.tasks \ {f} : f \in Directives(role, g)

IsEntryPoint(f) == \E i \in 1..Len(entry_points) : entry_points[i].name = f

\* C22: a task file other than main that an include directive of another
\* task file names is never an entry point, wherever the directive stands in
\* the including file and however many other directives that file has.
C22_InclusionWins ==
    Regenerated =>
        \A f \in DOMAIN TheRole.tasks \ {"main"} :
            IncludedByAnother(TheRole, f) => ~IsEntryPoint(f)

\* C23: every task file other than main that no other task file includes is
\* an entry point; a file's include of itself is left out of its include
\* set and does not count, on the structured path and on the regex path.
C23_StandaloneIsEntryPoint ==
    Regenerated =>
        \A f \in DOMAIN TheRole.tasks \ {"main"} :
            /\ f \notin IncludesOf(TheRole, f)
            /\ ~IncludedByAnother(TheRole, f) => IsEntryPoint(f)

(***************************************************************************)
(* Entry-point metadata.                                                   *)
(***************************************************************************)
\* The text the generator makes up for an entry point of a role without
\* includes.
SynthesizedShort(ep) ==
    "Auto-generated specs for " \o last.role \o " role - " \o ep \o " entry point"

SynthesizedDescription(ep) ==
    <<"Automatically generated argument specification for the " \o last.role \o " role.",
      "Entry point: " \o ep>>

\* Stored value, else role metadata, else synthesized text.
MetadataPrecedence(ep) ==
    LET stored == ExistingOf(ep.name)
        meta == TheRole.meta
    IN /\ ep.short_description =
            IF "short_description" \in stored.keys THEN stored.short_description
            ELSE IF meta.short_description # "" THEN meta.short_description
            ELSE SynthesizedShort(ep.name)
       /\ ep.description =
            IF "description" \in stored.keys THEN stored.description
            ELSE IF meta.description # <<>> THEN meta.description
            ELSE SynthesizedDescription(ep.name)
       /\ ep.author =
            IF "author" \in stored.keys THEN stored.author ELSE meta.authors

EmittedWithDescription(ep) ==
    "description" \in entry_doc(TheRole.spec, ep.name).keys

\* C24: short_description, description and author of a built entry point
\* come from the existing spec when it stores one, else from the role
\* metadata, else from the synthesized text, and no entry point is emitted
\* without a description.
C24_MetadataPrecedence ==
    Regenerated =>
        \A i \in 1..Len(entry_points) :
            /\ MetadataPrecedence(entry_points[i])
            /\ EmittedWithDescription(entry_points[i])

(***************************************************************************)
(* The generator's label of the role in hand.                              *)
(***************************************************************************)
\* C25: after process_single_role returns for a role, current_role names
\* that role, on every call of a sequence of calls on the same generator.
C25_CurrentRoleNamesTheRole ==
    Regenerated => current_role = last.role

(***************************************************************************)
(* The option names of a regenerated entry point.                          *)
(***************************************************************************)
\* The names the role itself gives an entry point.
NamesFromRole(role, entry_point_name) ==
    DOMAIN role.defaults \cup DOMAIN role.vars
        \cup VariablesOf(role, entry_point_name)
        \cup ReachableVariables(role, entry_point_name)

\* C26: the option names of a regenerated entry point are the keys of
\* defaults, the keys of vars, the variables of its own task file and the
\* variables of the files it reaches through includes; a name that only the
\* existing spec records is not an option, and every entry point carries
\* all defaults and all vars.
C26_OptionNames ==
    Regenerated =>
        \A i \in 1..Len(entry_points) :
            LET name == entry_points[i].name
                names == DOMAIN entry_points[i].options
            IN /\ names = NamesFromRole(TheRole, name)
               /\ \A n \in DOMAIN ExistingOf(name).options :
                     n \notin NamesFromRole(TheRole, name) => n \notin names
               /\ DOMAIN TheRole.defaults \cup DOMAIN TheRole.vars \subseteq names

\* The existing spec of main lists port, which the role uses in another
\* entry point's task file only: main has lost the option and the other
\* entry point has it.
C26_Witness ==
    /\ Regenerated
    /\ "port" \in DOMAIN ExistingOf("main").options
    /\ \E i \in 1..Len(entry_points) :
          /\ entry_points[i].name = "main"
          /\ "port" \notin DOMAIN entry_points[i].options
    /\ \E i \in 1..Len(entry_points) :
          /\ entry_points[i].name # "main"
          /\ "port" \in DOMAIN entry_points[i].options

\* Two entry points that both carry the role's default.
C26_WitnessDefaults ==
    /\ Regenerated
    /\ Len(entry_points) >= 2
    /\ DOMAIN TheRole.defaults # {}
    /\ \A i \in 1..Len(entry_points) :
          DOMAIN TheRole.defaults \subseteq DOMAIN entry_points[i].options

(***************************************************************************)
(* Built entry points are valid.                                           *)
(***************************************************************************)
\* Every name a conditional-requirement group of the entry point mentions.
GroupNames(ep) ==
    UNION { { c[k] : k \in 1..Len(c) } :
            c \in { ep.required_one_of[j] : j \in 1..Len(ep.required_one_of) }
                  \cup { ep.mutually_exclusive[j] : j \in 1..Len(ep.mutually_exclusive) }
                  \cup { ep.required_together[j] : j \in 1..Len(ep.required_together) } }

WellFormedEntryPoint(ep) ==
    /\ \A n \in DOMAIN ep.options :
          /\ ep.options[n].type \in ArgumentType
          /\ ep.options[n].name = n
          /\ ~(ep.options[n].required /\ ep.options[n].default # NoneVal)
    /\ ep.required_if = <<>>
    /\ GroupNames(ep) \subseteq DOMAIN ep.options

CalledSingleRole == last.op = "process_single_role"

\* C27: the entry points process_single_role built pass validate_specs:
\* every option has one of the eight types and the name of its key, no
\* conditional-requirement group names an undeclared option, and no option
\* is required and has a default.
C27_BuiltSpecsAreValid ==
    CalledSingleRole =>
        /\ validate_specs(entry_points)
        /\ \A i \in 1..Len(entry_points) : WellFormedEntryPoint(entry_points[i])

\* An entry point with an optional option that has a default and a required
\* option without one.
C27_Witness ==
    /\ Regenerated
    /\ \E i \in 1..Len(entry_points) :
          LET options == entry_points[i].options
          IN /\ "port" \in DOMAIN options
             /\ options["port"].default = IntVal
             /\ options["port"].type = "int"
             /\ "db_host" \in DOMAIN options
             /\ options["db_host"].required

(***************************************************************************)
(* Two runs on the same files.                                             *)
(***************************************************************************)
\* A second run started from the files the last call started from, in which
\* the sets of included files are iterated in the order ord.
SecondRun(ord) ==
    process_single_role(Generator, galaxy_version, last.disk_before, last.role, ord,
                        collection_mode, dry_run)

\* C28: two runs started from the same role files and the same existing
\* spec build the same entry points and write the same file, in whatever
\* order the sets of included files and of variables are iterated.
C28_Determinism ==
    Regenerated =>
        \A ord \in StemOrders :
            /\ SecondRun(ord).gen.entry_points = entry_points
            /\ SecondRun(ord).disk[last.role].spec = TheRole.spec

(***************************************************************************)
(* Serializer and loader.                                                  *)
(***************************************************************************)
Loaded == last.op = "load_existing_specs"

Serialized == round_trip_entry_points(sample)

\* What the snapshot of an option holds.
SnapshotFields == {"_existing", "description", "version_added"}

\* C29: loading a document generate_yaml produced returns, for every
\* emitted entry point, its short_description, description and author, and
\* for every emitted option its description and version_added with the flag
\* _existing; type, required, default and choices are not in the snapshot.
C29_RoundTrip ==
    Loaded =>
        /\ DOMAIN last.result = { Serialized[i].name : i \in 1..Len(Serialized) }
        /\ \A i \in 1..Len(Serialized) :
              LET ep == Serialized[i]
                  snapshot == last.result[ep.name]
              IN /\ snapshot.short_description = ep.short_description
                 /\ snapshot.description = ep.description
                 /\ snapshot.author = ep.author
                 /\ DOMAIN snapshot.options = DOMAIN ep.options
                 /\ \A n \in DOMAIN ep.options :
                       /\ DOMAIN snapshot.options[n] = SnapshotFields
                       /\ snapshot.options[n].description = ep.options[n].description
                       /\ snapshot.options[n].version_added = ep.options[n].version_added
                       /\ snapshot.options[n]._existing

\* Two entry points, the first with hand-written text and two required
\* options that have a description, a version and a default.
C29_Witness ==
    /\ Loaded
    /\ Len(Serialized) = 2
    /\ last.result["main"].description = <<HandText>>
    /\ last.result["main"].author = <<"Alice">>
    /\ DOMAIN last.result["main"].options = TaskNames
    /\ last.result["main"].options["port"].description = HandText
    /\ last.result["main"].options["port"].version_added = HandVersion
    /\ Serialized[1].options["port"].required
    /\ Serialized[1].options["port"].default = IntVal

(***************************************************************************)
(* The statistics of the generator.                                        *)
(***************************************************************************)
Counters == DOMAIN InitialStats

\* The entry points process_single_role builds for a role of the collection
\* the last call started from.
BuiltFor(r) ==
    Len(process_single_role(Generator, galaxy_version, last.disk_before, r, SortedStems,
                            collection_mode, dry_run).gen.entry_points)

\* The entry points the last call built: those of the role for
\* process_single_role, those of every role it went through for
\* process_collection.
BuiltByLastCall ==
    IF last.op = "process_single_role" THEN Len(entry_points)
    ELSE IF last.op = "process_collection"
    THEN SumSeq([i \in 1..Len(last.attempted) |-> BuiltFor(last.attempted[i])])
    ELSE 0

AfterCall == last.op \in {"process_single_role", "process_collection"}

\* C30: after any sequence of role-processing calls on one generator,
\* total_variables is new_variables plus existing_variables, every call has
\* added to entry_points_created the number of entry points it built, and no
\* counter is below what it was before the call.
C30_Statistics ==
    /\ stats.total_variables = stats.new_variables + stats.existing_variables
    /\ AfterCall =>
          /\ stats.entry_points_created =
                last.stats_before.entry_points_created + BuiltByLastCall
          /\ \A c \in Counters : stats[c] >= last.stats_before[c]

\* A later call that built entry points, on a generator that has by then
\* counted a new variable and an existing one.
C30_Witness ==
    /\ AfterCall
    /\ last.stats_before.entry_points_created > 0
    /\ stats.entry_points_created > last.stats_before.entry_points_created
    /\ stats.new_variables > 0
    /\ stats.existing_variables > 0

====
